---- MODULE Spec2Model ----
(***************************************************************************)
(* api-doc-generator: the static-analysis core (pkg/ast struct, handler,   *)
(* service and route analyzers, internal/openapi, and the gin parser's     *)
(* Analyze) as state machines.                                             *)
(*                                                                         *)
(* Go strings that the code takes apart (field names, paths, type-name     *)
(* strings, directory names) are sequences of one-character strings or of  *)
(* tokens; names that are only compared (type names, function names) are   *)
(* TLA+ strings.                                                           *)
(***************************************************************************)
EXTENDS Integers, Sequences, FiniteSets, TLC

VARIABLES
  \* ---- analysis of one handler body (analyzeHandlerBody) and its linking
  hBody,        \* the nodes of the body in the order ast.Inspect visits them
  hPass,        \* 0: not running; 1, 2: the pass of analyzeHandlerBody; 3: linked
  hIdx,         \* number of nodes already visited in the current pass
  varTypes,     \* variable name -> recorded type-name string
  hInfo,        \* the HandlerInfo under construction
  hService,     \* sa.functions of the service analyzer seen when linking
  hRoute,       \* the route that names the handler, after linking
  hOp,          \* its operation
  \* ---- route extraction from one function body (extractRoutesFromFunc)
  rBody,        \* the nodes of funcDecl.Body in the order ast.Inspect visits them
  rIdx,         \* number of nodes already visited
  groupPrefixes,\* variable name -> group prefix, local to the function
  routes,       \* the RouteInfo records found so far
  rFile,        \* the function bodies of the file, in the order of the file
  rFn,          \* index in rFile of the function being walked; Len + 1 at the end
  fileRoutes,   \* the routes of ExtractGinRoutes, of the functions walked so far
  \* ---- extraction of one struct declaration (extractStructSchemaWithName)
  xDecl,        \* the declaration being extracted
  xIdx,         \* number of fields of xDecl.fields already processed
  xProps,       \* schema.Properties built so far
  xRequired,    \* schema.Required built so far
  xEmbedded,    \* sa.embeddedFields[structName] built so far
  \* ---- GinParser.Analyze over a source tree
  tree,         \* the source tree: is the root accessible, the entries below it
  pc,           \* "walk1", "expand", "schemas", "walk2", "done"
  pos,          \* the walk's position: 0 at the root, k at the k-th entry
  run,          \* 1 for the first call of Analyze on the tree, 2 for the second
  structs,      \* sa.structs: type name -> the stored schema
  structPriority, \* sa.structPriority
  embeddedFields, \* sa.embeddedFields: owner -> embedded type names
  heap,         \* the Properties maps allocated so far, by identity
  functions,    \* the service analyzer's functions
  handlerInfoMap, \* handler name -> HandlerInfo
  spec,         \* the Document under construction
  result,       \* what Analyze returned
  firstResult,  \* what the first call returned
  \* ---- a Document under AddSchema and AddPath calls (part_006 90-124)
  doc,          \* the Spec the calls act on
  docCall,      \* the last call and its arguments
  docCalls,     \* number of calls made
  \* ---- inferDataTypeFromBody on one service function body
  sBody,        \* the nodes of the body in the order ast.Inspect visits them
  sIdx,         \* number of nodes already visited
  inferredType, \* the local inferredType
  lastDataType, \* the local lastDataType
  sReturn,      \* << >> until the function returns, then <<the returned string>>
  \* ---- webhook deliveries, each processed in its own goroutine
  upstream,     \* repository name -> the entries of the tree at the remote head
  workDir,      \* repository name -> the entries of the working copy on disk
  gRepo,        \* delivery -> the repository it names
  gPc,          \* delivery -> where its processRepository stands
  gPulled,      \* delivery -> the working copy as its CloneOrPull left it
  gLocal,       \* delivery -> the analyzers and the Document of its Analyze
  gResult       \* delivery -> what its Analyze returned

extractVars == <<xDecl, xIdx, xProps, xRequired, xEmbedded>>
routeVars == <<rBody, rIdx, groupPrefixes, routes, rFile, rFn, fileRoutes>>
handlerVars ==
  <<hBody, hPass, hIdx, varTypes, hInfo, hService, hRoute, hOp>>
analyzeVars ==
  <<tree, pc, pos, run, structs, structPriority, embeddedFields, heap,
    functions, handlerInfoMap, spec, result, firstResult>>
docVars == <<doc, docCall, docCalls>>
serviceVars == <<sBody, sIdx, inferredType, lastDataType, sReturn>>
concVars == <<upstream, workDir, gRepo, gPc, gPulled, gLocal, gResult>>
vars ==
  <<extractVars, routeVars, handlerVars, analyzeVars, docVars, serviceVars,
    concVars>>

(***************************************************************************)
(* Bounds                                                                  *)
(***************************************************************************)
MaxFields == 2
MaxStmts == 3
MaxHandlerStmts == 3
MaxEntries == 3
MaxDepth == 3
MaxCalls == 3
MaxServiceStmts == 3

(***************************************************************************)
(* Generic helpers                                                         *)
(***************************************************************************)
Range(s) == {s[i] : i \in 1..Len(s)}

SeqsUpTo(S, n) == UNION {[1..k -> S] : k \in 0..n}

\* a Go map with no key
EmptyMap == << >>

Put(m, k, v) == [x \in DOMAIN m \cup {k} |-> IF x = k THEN v ELSE m[x]]

(***************************************************************************)
(* Syntax trees: type expressions, struct tags, fields, declarations       *)
(***************************************************************************)
Ident(n) == [kind |-> "Ident", name |-> n]
StarExpr(x) == [kind |-> "StarExpr", x |-> x]
ArrayType(e) == [kind |-> "ArrayType", elt |-> e]
\* X.Sel; x is the expression X
SelectorExpr(x, n) == [kind |-> "SelectorExpr", x |-> x, sel |-> n]
\* map[string]V
MapType(v) == [kind |-> "MapType", key |-> Ident("string"), value |-> v]
InterfaceType == [kind |-> "InterfaceType"]

\* field.Tag == nil
NoTag == [nil |-> TRUE, json |-> << >>, binding |-> << >>]
\* a tag literal; json is the value of the json key split at commas (<< >> when
\* the key is absent or its value empty), binding the rules of the binding key
Tag(j, b) == [nil |-> FALSE, json |-> j, binding |-> b]

Field(ns, t, tag) == [names |-> ns, type |-> t, tag |-> tag]

StructDecl(n, fs) == [name |-> n, fields |-> fs]

(***************************************************************************)
(* The state of a part of the program that is not running                  *)
(***************************************************************************)
NoDecl == StructDecl("", << >>)

ExtractIdle ==
  /\ xDecl = NoDecl
  /\ xIdx = 0
  /\ xProps = EmptyMap
  /\ xRequired = << >>
  /\ xEmbedded = << >>

\* no operation built yet
NoOperation == [parameters |-> << >>]

NoHandlerInfo ==
  [name |-> "", requestType |-> << >>, responseType |-> << >>,
   queryParams |-> << >>, pathParams |-> << >>, serviceCalls |-> << >>]

HandlerIdle ==
  /\ hBody = << >>
  /\ hPass = 0
  /\ hIdx = 0
  /\ varTypes = EmptyMap
  /\ hInfo = NoHandlerInfo
  /\ hService = EmptyMap
  /\ hRoute = [method |-> ""]
  /\ hOp = NoOperation

\* openapi.NewSpec (part_006 75-87): no path, no component schema
NewSpec == [schemas |-> EmptyMap, paths |-> EmptyMap]

\* Analyze has not returned; a returned pointer is << >> for nil, <<v>> else
NoResult == [spec |-> << >>, err |-> << >>]

NoTree == [rootOk |-> TRUE, entries |-> << >>]

AnalyzeIdle ==
  /\ tree = NoTree
  /\ pc = "idle"
  /\ pos = 0
  /\ run = 0
  /\ structs = EmptyMap
  /\ structPriority = EmptyMap
  /\ embeddedFields = EmptyMap
  /\ heap = << >>
  /\ functions = EmptyMap
  /\ handlerInfoMap = EmptyMap
  /\ spec = NewSpec
  /\ result = NoResult
  /\ firstResult = NoResult

RouteIdle ==
  /\ rBody = << >>
  /\ rIdx = 0
  /\ groupPrefixes = EmptyMap
  /\ routes = << >>
  /\ rFile = << >>
  /\ rFn = 0
  /\ fileRoutes = << >>

NoCall == [fn |-> ""]

DocumentIdle ==
  /\ doc = NewSpec
  /\ docCall = NoCall
  /\ docCalls = 0

ServiceIdle ==
  /\ sBody = << >>
  /\ sIdx = 0
  /\ inferredType = << >>
  /\ lastDataType = << >>
  /\ sReturn = << >>

ConcurrentIdle ==
  /\ upstream = EmptyMap
  /\ workDir = EmptyMap
  /\ gRepo = EmptyMap
  /\ gPc = EmptyMap
  /\ gPulled = EmptyMap
  /\ gLocal = EmptyMap
  /\ gResult = EmptyMap

\* the parts added to the analysis core are not running
OthersIdle == DocumentIdle /\ ServiceIdle /\ ConcurrentIdle

(***************************************************************************)
(* openapi.Schema (part_006 63-72).  Properties is a Go map, a reference:  *)
(* props is Nil or the identity of a map held in the heap.  Items and      *)
(* AdditionalProperties are pointers to schemas nobody else holds: << >>   *)
(* for nil, <<s>> for a pointer to s.                                      *)
(***************************************************************************)
Nil == 0

EmptySchema ==
  [type |-> "", format |-> "", description |-> "", props |-> Nil,
   required |-> << >>, items |-> << >>, ref |-> << >>, addl |-> << >>]

TypeSchema(t) == [EmptySchema EXCEPT !.type = t]
\* "#/components/schemas/" + typeName, typeName a sequence of tokens
RefSchema(typeName) ==
  [EmptySchema EXCEPT !.ref = <<"#/components/schemas/">> \o typeName]

(***************************************************************************)
(* isExported, toLowerCamelCase (part_001 911-926)                         *)
(***************************************************************************)
UpperChars == {"A", "B", "D", "I", "X"}

ToLowerChar(c) ==
  CASE c = "A" -> "a"
    [] c = "B" -> "b"
    [] c = "D" -> "d"
    [] c = "I" -> "i"
    [] c = "X" -> "x"
    [] OTHER -> c

isExported(name) == name # << >> /\ name[1] \in UpperChars

toLowerCamelCase(s) ==
  IF s = << >> THEN s ELSE <<ToLowerChar(s[1])>> \o Tail(s)

(***************************************************************************)
(* parseJSONTag (part_001 840-867)                                         *)
(***************************************************************************)
parseJSONTag(tag) ==
  IF tag.nil \/ tag.json = << >>
    THEN [name |-> << >>, omitempty |-> FALSE, skip |-> FALSE]
    ELSE IF tag.json[1] = <<"-">>
      THEN [name |-> << >>, omitempty |-> FALSE, skip |-> TRUE]
      ELSE [name |-> tag.json[1],
            omitempty |-> \E i \in 2..Len(tag.json) : tag.json[i] = "omitempty",
            skip |-> FALSE]

(***************************************************************************)
(* extractTypeNameFromExpr (part_001 790-803)                              *)
(***************************************************************************)
RECURSIVE extractTypeNameFromExpr(_)
extractTypeNameFromExpr(expr) ==
  CASE expr.kind = "Ident" -> expr.name
    [] expr.kind = "SelectorExpr" -> expr.sel
    [] expr.kind = "StarExpr" -> extractTypeNameFromExpr(expr.x)
    [] OTHER -> ""

(***************************************************************************)
(* identToSchema, qualifiedTypeToSchema, extractFieldSchema                *)
(* (part_001 751-838).  stored is sa.structs: type name -> the stored      *)
(* *Schema, here its Properties map identity and its Required list.        *)
(***************************************************************************)
IntegerTypes ==
  {"int", "int8", "int16", "int32", "int64",
   "uint", "uint8", "uint16", "uint32", "uint64"}

identToSchema(typeName, stored) ==
  CASE typeName = "string" -> TypeSchema("string")
    [] typeName \in IntegerTypes -> TypeSchema("integer")
    [] typeName \in {"float32", "float64"} -> TypeSchema("number")
    [] typeName = "bool" -> TypeSchema("boolean")
    [] OTHER ->
         IF typeName \in DOMAIN stored
           THEN [TypeSchema("object") EXCEPT
                   !.props = stored[typeName].props,
                   !.required = stored[typeName].required]
           ELSE RefSchema(<<typeName>>)

\* qualifiedName == ident.Name + "." + t.Sel.Name, here the pair
qualifiedTypeToSchema(pkg, name) ==
  IF pkg = "time" /\ name = "Time"
    THEN [TypeSchema("string") EXCEPT !.format = "date-time"]
    ELSE TypeSchema("object")

RECURSIVE extractFieldSchema(_, _)
extractFieldSchema(expr, stored) ==
  CASE expr.kind = "Ident" -> identToSchema(expr.name, stored)
    [] expr.kind = "ArrayType" ->
         [TypeSchema("array") EXCEPT
            !.items = <<extractFieldSchema(expr.elt, stored)>>]
    [] expr.kind = "StarExpr" -> extractFieldSchema(expr.x, stored)
    [] expr.kind = "SelectorExpr" ->
         IF expr.x.kind = "Ident"
           THEN qualifiedTypeToSchema(expr.x.name, expr.sel)
           ELSE TypeSchema("object")
    [] expr.kind = "MapType" ->
         [TypeSchema("object") EXCEPT
            !.addl = <<extractFieldSchema(expr.value, stored)>>]
    [] OTHER -> TypeSchema("object")

(***************************************************************************)
(* applyValidationTags (part_001 870-909)                                  *)
(***************************************************************************)
RECURSIVE applyRules(_, _, _)
applyRules(rules, i, schema) ==
  IF i > Len(rules) THEN schema
  ELSE LET rule == rules[i]
           next ==
             CASE rule = "email" -> [schema EXCEPT !.format = "email"]
               [] rule = "url" -> [schema EXCEPT !.format = "uri"]
               [] rule = "gt" ->
                    IF schema.description = ""
                      THEN [schema EXCEPT !.description = "Must be greater than"]
                      ELSE schema
               [] rule = "gte" ->
                    IF schema.description = ""
                      THEN [schema EXCEPT
                              !.description = "Must be greater than or equal to"]
                      ELSE schema
               [] OTHER -> schema   \* required, min=, max=, unknown rules
       IN applyRules(rules, i + 1, next)

applyValidationTags(tag, schema) ==
  IF tag.nil \/ tag.binding = << >> THEN schema
  ELSE applyRules(tag.binding, 1, schema)

(***************************************************************************)
(* One iteration of the field loop of extractStructSchemaWithName          *)
(* (part_001 656-746) on the schema under construction                     *)
(*   acc = [props, required, embedded].                                    *)
(***************************************************************************)
\* a field is also required when its binding tag says so
RequiredByBinding(omitempty, tag) ==
  ~omitempty \/ (~tag.nil /\ \E i \in 1..Len(tag.binding) :
                                tag.binding[i] = "required")

\* if !omitempty (part_001 738): the binding tag plays no part
MarksRequired(omitempty, tag) == ~omitempty

ExtractField(field, acc, stored) ==
  IF Len(field.names) = 0
    THEN LET embeddedTypeName == extractTypeNameFromExpr(field.type)
         IN IF embeddedTypeName # ""
              THEN [acc EXCEPT !.embedded = Append(@, embeddedTypeName)]
              ELSE acc
  ELSE LET fieldName == field.names[1]
           parsed == parseJSONTag(field.tag)
           jsonName == IF parsed.name = << >>
                         THEN toLowerCamelCase(fieldName)
                         ELSE parsed.name
           fieldSchema ==
             applyValidationTags(field.tag,
                                 extractFieldSchema(field.type, stored))
       IN IF ~isExported(fieldName) \/ parsed.skip
            THEN acc
            ELSE [acc EXCEPT
                    !.required = IF MarksRequired(parsed.omitempty, field.tag)
                                   THEN Append(@, jsonName)
                                   ELSE @,
                    !.props = Put(@, jsonName, fieldSchema)]

NewAcc(embedded) ==
  [props |-> EmptyMap, required |-> << >>, embedded |-> embedded]

RECURSIVE ExtractFrom(_, _, _, _)
ExtractFrom(fields, i, acc, stored) ==
  IF i > Len(fields) THEN acc
  ELSE ExtractFrom(fields, i + 1, ExtractField(fields[i], acc, stored), stored)

\* extractStructSchemaWithName (part_001 646-749): the schema of decl and the
\* new value of sa.embeddedFields[decl.name], given its old value
extractStructSchemaWithName(decl, embedded, stored) ==
  ExtractFrom(decl.fields, 1, NewAcc(embedded), stored)

(***************************************************************************)
(* Expressions and statements of function bodies                           *)
(***************************************************************************)
\* a basic literal; value is the literal's source text, delimiters included
BasicLit(k, v) == [kind |-> "BasicLit", litKind |-> k, value |-> v]
CompositeLit(t) == [kind |-> "CompositeLit", type |-> t]
UnaryExpr(x) == [kind |-> "UnaryExpr", x |-> x]
CallExpr(f, as) == [kind |-> "CallExpr", fun |-> f, args |-> as]
FuncLit == [kind |-> "FuncLit"]
AssignStmt(l, r) == [kind |-> "AssignStmt", lhs |-> l, rhs |-> r]
\* var names type; type is NoExpr when the declaration has none
NoExpr == [kind |-> "nil"]
ValueSpec(ns, t) == [kind |-> "ValueSpec", names |-> ns, type |-> t]

Quote == "\""
\* the interpreted string literal "p"
StringLit(p) == BasicLit("STRING", <<Quote>> \o p \o <<Quote>>)

\* recv.method(args...)
MethodCall(recv, method, as) == CallExpr(SelectorExpr(recv, method), as)

\* The CallExpr nodes of an expression in the order ast.Inspect visits them
\* (a node before its children, Fun before Args).
RECURSIVE CallsIn(_)
RECURSIVE CallsInAll(_, _)
CallsInAll(es, i) ==
  IF i > Len(es) THEN << >> ELSE CallsIn(es[i]) \o CallsInAll(es, i + 1)

CallsIn(e) ==
  CASE e.kind = "CallExpr" -> <<e>> \o CallsIn(e.fun) \o CallsInAll(e.args, 1)
    [] e.kind = "SelectorExpr" -> CallsIn(e.x)
    [] e.kind = "UnaryExpr" -> CallsIn(e.x)
    [] OTHER -> << >>

\* The AssignStmt, ValueSpec and CallExpr nodes of a statement list, in the
\* order ast.Inspect visits them.
RECURSIVE Nodes(_, _)
Nodes(stmts, i) ==
  IF i > Len(stmts) THEN << >>
  ELSE LET st == stmts[i]
           here == CASE st.kind = "AssignStmt" -> <<st>> \o CallsInAll(st.rhs, 1)
                     [] st.kind = "ValueSpec" -> <<st>>
                     [] OTHER -> CallsIn(st)
       IN here \o Nodes(stmts, i + 1)

(***************************************************************************)
(* strings.Trim(s, `"`) (part_002 62, 125)                                 *)
(***************************************************************************)
RECURSIVE TrimLeftQuotes(_)
TrimLeftQuotes(s) ==
  IF s # << >> /\ s[1] = Quote THEN TrimLeftQuotes(Tail(s)) ELSE s

RECURSIVE TrimRightQuotes(_)
TrimRightQuotes(s) ==
  IF s # << >> /\ s[Len(s)] = Quote
    THEN TrimRightQuotes(SubSeq(s, 1, Len(s) - 1)) ELSE s

TrimQuotes(s) == TrimRightQuotes(TrimLeftQuotes(s))

(***************************************************************************)
(* convertGinPathToOpenAPI (part_002 162-166): every leftmost, longest     *)
(* match of :([a-zA-Z0-9_]+) becomes {$1}                                  *)
(***************************************************************************)
NameChars ==
  {"a", "c", "d", "e", "h", "i", "l", "o", "p", "r", "s", "t", "u", "v",
   "1", "_"}

\* the last index of the run of name characters that starts at j
RECURSIVE RunEnd(_, _)
RunEnd(p, j) ==
  IF j + 1 <= Len(p) /\ p[j + 1] \in NameChars THEN RunEnd(p, j + 1) ELSE j

RECURSIVE ConvertFrom(_, _)
ConvertFrom(p, i) ==
  IF i > Len(p) THEN << >>
  ELSE IF p[i] = ":" /\ i + 1 <= Len(p) /\ p[i + 1] \in NameChars
    THEN LET j == RunEnd(p, i + 1)
         IN <<"{">> \o SubSeq(p, i + 1, j) \o <<"}">> \o ConvertFrom(p, j + 1)
    ELSE <<p[i]>> \o ConvertFrom(p, i + 1)

\* convertGinPathToOpenAPI that leaves the gin syntax in place
convertGinPathUnchanged(ginPath) == ginPath

convertGinPathToOpenAPI(ginPath) == ConvertFrom(ginPath, 1)

(***************************************************************************)
(* parseGinRouteCall (part_002 98-160).  NoRoute is the nil result.        *)
(***************************************************************************)
\* a body for POST alone
HasBodyPostOnly(method) == method = "POST"

\* RouteInfo.HasBody (part_002 156)
HasBody(method) == method \in {"POST", "PUT", "PATCH"}

validMethods == {"GET", "POST", "PUT", "DELETE", "PATCH", "HEAD", "OPTIONS"}

NoRoute == [method |-> ""]

parseGinRouteCall(call, prefixes) ==
  IF call.fun.kind # "SelectorExpr" THEN NoRoute
  ELSE IF call.fun.sel \notin validMethods THEN NoRoute
  ELSE IF Len(call.args) < 2 THEN NoRoute
  ELSE IF call.args[1].kind # "BasicLit" THEN NoRoute
  ELSE IF call.args[1].litKind # "STRING" THEN NoRoute
  ELSE
    LET method == call.fun.sel
        path == TrimQuotes(call.args[1].value)
        groupPrefix ==
          IF call.fun.x.kind = "Ident" /\ call.fun.x.name \in DOMAIN prefixes
            THEN prefixes[call.fun.x.name] ELSE << >>
        joined == groupPrefix \o path
        fullPath == IF joined = << >> THEN <<"/">> ELSE joined
        h == call.args[2]
        handler == CASE h.kind = "Ident" -> h.name
                     [] h.kind = "SelectorExpr" -> h.sel
                     [] OTHER -> "handler"
    IN [method |-> method,
        path |-> convertGinPathToOpenAPI(fullPath),
        handler |-> handler,
        hasBody |-> HasBody(method),
        hasParam |-> ":" \in Range(path),
        groupPrefix |-> groupPrefix,
        requestType |-> << >>,
        responseType |-> << >>]

(***************************************************************************)
(* extractRoutesFromFunc (part_002 48-96): the callback on one node        *)
(***************************************************************************)
\* BindGroup without the parent's prefix: every group starts at the root
BindGroupNoParent(assign, i, prefixes) ==
  IF /\ assign.lhs[i].kind = "Ident"
     /\ i <= Len(assign.rhs)
     /\ assign.rhs[i].kind = "CallExpr"
     /\ assign.rhs[i].fun.kind = "SelectorExpr"
     /\ assign.rhs[i].fun.sel = "Group"
     /\ Len(assign.rhs[i].args) > 0
     /\ assign.rhs[i].args[1].kind = "BasicLit"
    THEN Put(prefixes, assign.lhs[i].name,
             TrimQuotes(assign.rhs[i].args[1].value))
    ELSE prefixes

\* the group binding of the i-th left-hand side of an assignment, if any
BindGroup(assign, i, prefixes) ==
  IF /\ assign.lhs[i].kind = "Ident"
     /\ i <= Len(assign.rhs)
     /\ assign.rhs[i].kind = "CallExpr"
     /\ assign.rhs[i].fun.kind = "SelectorExpr"
     /\ assign.rhs[i].fun.sel = "Group"
     /\ Len(assign.rhs[i].args) > 0
     /\ assign.rhs[i].args[1].kind = "BasicLit"
    THEN LET sel == assign.rhs[i].fun
             newPrefix == TrimQuotes(assign.rhs[i].args[1].value)
             parentPrefix ==
               IF sel.x.name \in DOMAIN prefixes
                 THEN prefixes[sel.x.name] ELSE << >>
         IN IF sel.x.kind = "Ident"
              THEN Put(prefixes, assign.lhs[i].name, parentPrefix \o newPrefix)
              ELSE Put(prefixes, assign.lhs[i].name, newPrefix)
    ELSE prefixes

RECURSIVE BindGroups(_, _, _)
BindGroups(assign, i, prefixes) ==
  IF i > Len(assign.lhs) THEN prefixes
  ELSE BindGroups(assign, i + 1, BindGroup(assign, i, prefixes))

\* the callback of ast.Inspect on node n, on st = [prefixes, routes]
RouteVisit(n, st) ==
  CASE n.kind = "AssignStmt" ->
         [st EXCEPT !.prefixes = BindGroups(n, 1, @)]
    [] n.kind = "CallExpr" ->
         LET route == parseGinRouteCall(n, st.prefixes)
         IN IF route # NoRoute
              THEN [st EXCEPT !.routes = Append(@, route)]
              ELSE st
    [] OTHER -> st

RECURSIVE RouteVisitAll(_, _, _)
RouteVisitAll(nodes, i, st) ==
  IF i > Len(nodes) THEN st
  ELSE RouteVisitAll(nodes, i + 1, RouteVisit(nodes[i], st))

\* the prefixes of the function walked before are those of the next one
SharedGroupPrefixes(previous) == previous

\* groupPrefixes := make(map[string]string) (part_002 50): whatever the
\* function walked before has bound, the map starts empty
LocalGroupPrefixes(previous) == EmptyMap

\* extractRoutesFromFunc on a function body given as a statement list
extractRoutesFromFunc(body) ==
  RouteVisitAll(Nodes(body, 1), 1,
                [prefixes |-> LocalGroupPrefixes(EmptyMap),
                 routes |-> << >>]).routes

(***************************************************************************)
(* extractPathParameters (part_002 290-305): the names matched by          *)
(* \{([a-zA-Z0-9_]+)\}, as parameters                                      *)
(***************************************************************************)
PathParameter(name) ==
  [name |-> name, in |-> "path", required |-> TRUE,
   schema |-> TypeSchema("string")]

RECURSIVE PathParamsFrom(_, _)
PathParamsFrom(p, i) ==
  IF i > Len(p) THEN << >>
  ELSE IF p[i] = "{" /\ i + 1 <= Len(p) /\ p[i + 1] \in NameChars
    THEN LET j == RunEnd(p, i + 1)
         IN IF j + 1 <= Len(p) /\ p[j + 1] = "}"
              THEN <<PathParameter(SubSeq(p, i + 1, j))>>
                     \o PathParamsFrom(p, j + 2)
              ELSE PathParamsFrom(p, i + 1)
    ELSE PathParamsFrom(p, i + 1)

extractPathParameters(path) == PathParamsFrom(path, 1)

(***************************************************************************)
(* buildDataSchema (part_002 308-339) on a type-name string, a sequence    *)
(* of tokens: "[]", "map[", "]", "interface{}", identifiers, "."           *)
(***************************************************************************)
MapStringInterface == <<"map[", "string", "]", "interface{}">>

buildDataSchema(typeName) ==
  IF typeName # << >> /\ typeName[1] = "[]"
    THEN [TypeSchema("array") EXCEPT !.items = <<RefSchema(Tail(typeName))>>]
  ELSE IF typeName # << >> /\ typeName[1] = "map["
    THEN [TypeSchema("object") EXCEPT !.addl = <<TypeSchema("object")>>]
  ELSE IF typeName = <<"interface{}">>
    THEN TypeSchema("object")
  ELSE RefSchema(typeName)

(***************************************************************************)
(* RouteInfo.ToOperation (part_002 168-244).  Summary and Tags are left    *)
(* out of the operation: they are functions of the handler name and of     *)
(* the path alone.                                                         *)
(***************************************************************************)
ResponseEnvelope(dataSchema) ==
  [code |-> [TypeSchema("integer") EXCEPT !.description = "code"],
   message |-> [TypeSchema("string") EXCEPT !.description = "message"],
   data |-> dataSchema]

ToOperation(r) ==
  [parameters |-> IF r.hasParam THEN extractPathParameters(r.path) ELSE << >>,
   requestBody |->
     IF r.hasBody
       THEN <<[required |-> TRUE,
               schema |-> IF r.requestType # << >>
                            THEN RefSchema(r.requestType)
                            ELSE TypeSchema("object")]>>
       ELSE << >>,
   responses |->
     [c \in {"200", "400", "404", "500"} |->
        IF c = "200"
          THEN [description |-> "Successful response",
                content |->
                  <<ResponseEnvelope(IF r.responseType # << >>
                                       THEN buildDataSchema(r.responseType)
                                       ELSE TypeSchema("object"))>>]
          ELSE [description |->
                  CASE c = "400" -> "Bad request"
                    [] c = "404" -> "Not found"
                    [] OTHER -> "Internal server error",
                content |-> << >>]]]

\* the data payload of the success response of an operation
DataPayload(op) == op.responses["200"].content[1].data

(***************************************************************************)
(* extractTypeFromUnaryExpr, extractTypeFromExpr (part_001 251-286); the   *)
(* result is a type-name string, << >> for ""                              *)
(***************************************************************************)
RECURSIVE extractTypeFromExpr(_)

extractTypeFromUnaryExpr(expr) ==
  IF expr.kind # "UnaryExpr" THEN << >>
  ELSE CASE expr.x.kind = "Ident" -> <<expr.x.name>>
         [] expr.x.kind = "CompositeLit" -> extractTypeFromExpr(expr.x.type)
         [] OTHER -> << >>

\* extractTypeFromExpr without its MapType case
extractTypeFromExprNoMap(expr) ==
  CASE expr.kind = "Ident" -> <<expr.name>>
    [] expr.kind = "SelectorExpr" -> <<expr.sel>>
    [] expr.kind = "CompositeLit" -> extractTypeFromExpr(expr.type)
    [] expr.kind = "UnaryExpr" -> extractTypeFromUnaryExpr(expr)
    [] OTHER -> << >>

extractTypeFromExpr(expr) ==
  CASE expr.kind = "Ident" -> <<expr.name>>
    [] expr.kind = "SelectorExpr" -> <<expr.sel>>
    [] expr.kind = "CompositeLit" -> extractTypeFromExpr(expr.type)
    [] expr.kind = "UnaryExpr" -> extractTypeFromUnaryExpr(expr)
    [] expr.kind = "MapType" -> MapStringInterface
    [] OTHER -> << >>

(***************************************************************************)
(* analyzeHandlerBody, first pass (part_001 88-138): the callback on one   *)
(* node, on st = [varTypes, info]                                          *)
(***************************************************************************)
ServiceCall(pkg, fn, v) == [package |-> pkg, function |-> fn, variable |-> v]

\* packageName + "." + funcName + ".result"
ResultMarker(pkg, fn) == <<pkg, ".", fn, ".", "result">>

\* the part of a type-name string after its last "." (part_001 128-131)
RECURSIVE LastDotPart(_)
LastDotPart(t) ==
  IF \E i \in 1..Len(t) : t[i] = "."
    THEN LastDotPart(Tail(t))
    ELSE t

AssignLhs(assign, i, st) ==
  IF assign.lhs[i].kind = "Ident" /\ i <= Len(assign.rhs)
    THEN LET name == assign.lhs[i].name
             rhs == assign.rhs[i]
             typeName == extractTypeFromExpr(rhs)
             st1 == IF typeName # << >>
                      THEN [st EXCEPT !.varTypes = Put(@, name, typeName)]
                      ELSE st
         IN IF /\ rhs.kind = "CallExpr"
               /\ rhs.fun.kind = "SelectorExpr"
               /\ rhs.fun.x.kind = "Ident"
              THEN [st1 EXCEPT
                      !.info.serviceCalls =
                         Append(@, ServiceCall(rhs.fun.x.name, rhs.fun.sel, name)),
                      !.varTypes =
                         Put(@, name, ResultMarker(rhs.fun.x.name, rhs.fun.sel))]
              ELSE st1
    ELSE st

RECURSIVE AssignAll(_, _, _)
AssignAll(assign, i, st) ==
  IF i > Len(assign.lhs) THEN st
  ELSE AssignAll(assign, i + 1, AssignLhs(assign, i, st))

RECURSIVE DeclareAll(_, _, _, _)
DeclareAll(names, i, typeName, vt) ==
  IF i > Len(names) THEN vt
  ELSE DeclareAll(names, i + 1, typeName, Put(vt, names[i], typeName))

FirstPassVisit(n, st) ==
  CASE n.kind = "AssignStmt" -> AssignAll(n, 1, st)
    [] n.kind = "ValueSpec" ->
         IF n.type # NoExpr
           THEN [st EXCEPT !.varTypes =
                   DeclareAll(n.names, 1,
                              LastDotPart(extractTypeFromExpr(n.type)), @)]
           ELSE st
    [] OTHER -> st

(***************************************************************************)
(* analyzeHandlerBody, second pass (part_001 141-238)                      *)
(***************************************************************************)
BindingMethods ==
  {"ShouldBindJSON", "BindJSON", "ShouldBind", "Bind", "ShouldBindQuery"}

WrapperMethods == {"SetResponseOK", "Success", "OK"}

\* strings.Contains(varType, ".result")
HasResultMarker(t) ==
  \E i \in 1..(Len(t) - 1) : t[i] = "." /\ t[i + 1] = "result"

appendUnique(slice, item) ==
  IF item \in Range(slice) THEN slice ELSE Append(slice, item)

\* the request type a binding call resolves from its first argument, taken
\* directly from the expression (the old rule)
BindRequestTypeDirect(call, vt) == extractTypeFromUnaryExpr(call.args[1])

\* the request type a binding call resolves (part_001 156-173), << >> if none
BindRequestType(call, vt) ==
  LET arg == call.args[1]
      found == /\ arg.kind = "UnaryExpr"
               /\ arg.x.kind = "Ident"
               /\ arg.x.name \in DOMAIN vt
               /\ vt[arg.x.name] # << >>
  IN IF found THEN vt[arg.x.name] ELSE extractTypeFromUnaryExpr(arg)

\* the response type a JSON call resolves (part_001 179-187), << >> if none
JSONResponseType(call, vt) ==
  LET arg == call.args[2]
      respType == extractTypeFromExpr(arg)
  IN IF respType = << >> /\ arg.kind = "Ident" /\ arg.name \in DOMAIN vt
       THEN vt[arg.name]
       ELSE respType

\* the response type after a success-wrapper call (part_001 195-215)
WrapperResponseType(call, vt, old) ==
  LET arg == call.args[2]
  IN IF arg.kind = "Ident"
       THEN IF arg.name \in DOMAIN vt
              THEN IF HasResultMarker(vt[arg.name])
                     THEN <<arg.name, ".", "service">>
                     ELSE IF vt[arg.name] # << >> THEN vt[arg.name] ELSE old
              ELSE <<arg.name>>
       ELSE IF extractTypeFromExpr(arg) # << >>
              THEN extractTypeFromExpr(arg) ELSE old

IsStringLit(e) == e.kind = "BasicLit" /\ e.litKind = "STRING"

\* every type counts as not yet resolved
AlwaysUnresolved(t) == TRUE

\* info.RequestType == "", info.ResponseType == "" (part_001 156, 189)
Unresolved(t) == t = << >>

SecondPassVisit(n, st) ==
  IF n.kind # "CallExpr" THEN st
  ELSE IF n.fun.kind # "SelectorExpr" THEN st
  ELSE
    LET m == n.fun.sel
        vt == st.varTypes
        info == st.info
    IN CASE m \in BindingMethods ->
              IF /\ Len(n.args) > 0
                 /\ Unresolved(info.requestType)
                 /\ BindRequestType(n, vt) # << >>
                THEN [st EXCEPT !.info.requestType = BindRequestType(n, vt)]
                ELSE st
         [] m = "JSON" ->
              IF /\ Len(n.args) > 1
                 /\ JSONResponseType(n, vt) # << >>
                 /\ Unresolved(info.responseType)
                THEN [st EXCEPT !.info.responseType = JSONResponseType(n, vt)]
                ELSE st
         [] m \in WrapperMethods ->
              IF Len(n.args) > 1
                THEN [st EXCEPT !.info.responseType =
                        WrapperResponseType(n, vt, @)]
                ELSE st
         [] m \in {"Query", "DefaultQuery"} ->
              IF Len(n.args) > 0 /\ IsStringLit(n.args[1])
                THEN [st EXCEPT !.info.queryParams =
                        appendUnique(@, TrimQuotes(n.args[1].value))]
                ELSE st
         [] m = "Param" ->
              IF Len(n.args) > 0 /\ IsStringLit(n.args[1])
                THEN [st EXCEPT !.info.pathParams =
                        appendUnique(@, TrimQuotes(n.args[1].value))]
                ELSE st
         [] OTHER -> st

RECURSIVE PassAll(_, _, _, _)
PassAll(pass, nodes, i, st) ==
  IF i > Len(nodes) THEN st
  ELSE PassAll(pass, nodes, i + 1,
               IF pass = 1 THEN FirstPassVisit(nodes[i], st)
               ELSE SecondPassVisit(nodes[i], st))

NewHandlerInfo(name) == [NoHandlerInfo EXCEPT !.name = name]

\* analyzeHandlerBody on the body of the handler called name (part_001 41-50)
analyzeHandlerBody(name, body) ==
  LET nodes == Nodes(body, 1)
      st1 == PassAll(1, nodes, 1,
                     [varTypes |-> EmptyMap, info |-> NewHandlerInfo(name)])
  IN PassAll(2, nodes, 1, st1).info

(***************************************************************************)
(* inferResponseTypeFromServiceCalls (gin_parser.go 184-211) and the       *)
(* linking of a route to its handler (gin_parser.go 149-158).  fns is      *)
(* sa.functions, keyed by <<package, function>> for the key                *)
(* package + "." + function; a package name is a sequence of tokens.       *)
(***************************************************************************)
ServiceFuncInfo(pkg, name, ret, data) ==
  [package |-> pkg, name |-> name, returnType |-> ret, dataType |-> data]

RECURSIVE InferFrom(_, _, _)
InferFrom(calls, i, fns) ==
  IF i > Len(calls) THEN << >>
  ELSE LET call == calls[i]
           key == <<<<call.package>>, call.function>>
       IN IF call.variable # "data" \/ key \notin DOMAIN fns
            THEN InferFrom(calls, i + 1, fns)
          ELSE IF /\ fns[key].dataType # << >>
                  /\ fns[key].dataType # MapStringInterface
            THEN fns[key].dataType
          ELSE IF /\ fns[key].returnType # << >>
                  /\ fns[key].returnType # <<"interface{}">>
            THEN fns[key].returnType
          ELSE InferFrom(calls, i + 1, fns)

\* the inference with the declared return type preferred to the data type
RECURSIVE InferFromReturnFirst(_, _, _)
InferFromReturnFirst(calls, i, fns) ==
  IF i > Len(calls) THEN << >>
  ELSE LET call == calls[i]
           key == <<<<call.package>>, call.function>>
       IN IF call.variable # "data" \/ key \notin DOMAIN fns
            THEN InferFromReturnFirst(calls, i + 1, fns)
          ELSE IF /\ fns[key].returnType # << >>
                  /\ fns[key].returnType # <<"interface{}">>
            THEN fns[key].returnType
          ELSE IF /\ fns[key].dataType # << >>
                  /\ fns[key].dataType # MapStringInterface
            THEN fns[key].dataType
          ELSE InferFromReturnFirst(calls, i + 1, fns)

inferResponseTypeReturnFirst(handlerInfo, fns) ==
  InferFromReturnFirst(handlerInfo.serviceCalls, 1, fns)

inferResponseTypeFromServiceCalls(handlerInfo, fns) ==
  InferFrom(handlerInfo.serviceCalls, 1, fns)

LinkRoute(route, infos, fns) ==
  IF route.handler \in DOMAIN infos
    THEN LET handlerInfo == infos[route.handler]
             inferred ==
               inferResponseTypeFromServiceCalls(handlerInfo, fns)
         IN [route EXCEPT
               !.requestType = handlerInfo.requestType,
               !.responseType = IF inferred # << >> THEN inferred
                                ELSE handlerInfo.responseType]
    ELSE route

(***************************************************************************)
(* ServiceAnalyzer (part_001 288-499).  A function declaration is          *)
(*   [name, exported, gin, results, body]:                                 *)
(* exported is isExported(name), gin is isGinHandler (part_001 63-81),     *)
(* results the types of the result list, body the statement list.          *)
(***************************************************************************)
FuncDecl(n, exported, gin, results, body) ==
  [name |-> n, exported |-> exported, gin |-> gin, results |-> results,
   body |-> body]

\* a name returned by extractTypeNameFromExpr, as a type-name string
NameString(n) == IF n = "" THEN << >> ELSE <<n>>

\* cleanTypeName (part_001 448-455)
cleanTypeName(typeName) == LastDotPart(typeName)

\* extractTypeFromAssignment (part_001 418-445)
extractTypeFromAssignment(expr) ==
  CASE expr.kind = "CompositeLit" ->
         cleanTypeName(NameString(extractTypeNameFromExpr(expr.type)))
    [] expr.kind = "CallExpr" ->
         IF /\ expr.fun.kind = "Ident"
            /\ expr.fun.name = "make"
            /\ Len(expr.args) > 0
           THEN cleanTypeName(NameString(extractTypeNameFromExpr(expr.args[1])))
           ELSE << >>
    [] expr.kind = "UnaryExpr" ->
         cleanTypeName(NameString(extractTypeNameFromExpr(expr.x)))
    [] expr.kind = "Ident" -> <<expr.name>>
    [] OTHER -> << >>

\* extractDetailedTypeName (part_001 458-487)
RECURSIVE extractDetailedTypeName(_)
extractDetailedTypeName(expr) ==
  CASE expr.kind = "Ident" -> <<expr.name>>
    [] expr.kind = "SelectorExpr" -> <<expr.sel>>
    [] expr.kind = "ArrayType" -> <<"[]">> \o extractDetailedTypeName(expr.elt)
    [] expr.kind = "StarExpr" -> extractDetailedTypeName(expr.x)
    [] expr.kind = "MapType" ->
         <<"map[">> \o extractDetailedTypeName(expr.key) \o <<"]">>
           \o extractDetailedTypeName(expr.value)
    [] expr.kind = "InterfaceType" -> <<"interface{}">>
    [] OTHER -> << >>

\* the callback of inferDataTypeFromBody on an assignment (part_001 376-390),
\* on st = [inferredType, lastDataType]
RECURSIVE InferAssign(_, _, _)
InferAssign(assign, i, st) ==
  IF i > Len(assign.lhs) THEN st
  ELSE LET typeName == extractTypeFromAssignment(assign.rhs[i])
       IN InferAssign(assign, i + 1,
            IF /\ assign.lhs[i] = Ident("data")
               /\ i <= Len(assign.rhs)
               /\ typeName # << >>
              THEN [lastDataType |-> typeName,
                    inferredType |-> IF typeName # MapStringInterface
                                       THEN typeName ELSE st.inferredType]
              ELSE st)

\* the same on a declaration (part_001 392-405)
RECURSIVE InferDeclare(_, _, _)
InferDeclare(spc, i, st) ==
  IF i > Len(spc.names) THEN st
  ELSE LET typeName == extractDetailedTypeName(spc.type)
       IN InferDeclare(spc, i + 1,
            IF /\ spc.names[i] = "data"
               /\ spc.type # NoExpr
               /\ typeName # << >>
              THEN [lastDataType |-> typeName,
                    inferredType |->
                      IF /\ typeName # MapStringInterface
                         /\ typeName # <<"interface{}">>
                        THEN typeName ELSE st.inferredType]
              ELSE st)

\* the callback of inferDataTypeFromBody on node n (part_001 373-406)
InferVisit(n, st) ==
  CASE n.kind = "AssignStmt" -> InferAssign(n, 1, st)
    [] n.kind = "ValueSpec" -> InferDeclare(n, 1, st)
    [] OTHER -> st

RECURSIVE InferNodes(_, _, _)
InferNodes(nodes, i, st) ==
  IF i > Len(nodes) THEN st
  ELSE InferNodes(nodes, i + 1, InferVisit(nodes[i], st))

\* inferDataTypeFromBody (part_001 368-415)
inferDataTypeFromBody(body) ==
  LET st == InferNodes(Nodes(body, 1), 1,
                       [inferredType |-> << >>, lastDataType |-> << >>])
  IN IF st.inferredType = << >> /\ st.lastDataType # << >>
       THEN st.lastDataType
       ELSE st.inferredType

\* the first result type whose name is neither "" nor "error" (part_001 346-354)
RECURSIVE FirstReturnType(_, _)
FirstReturnType(results, i) ==
  IF i > Len(results) THEN << >>
  ELSE IF extractTypeNameFromExpr(results[i]) \notin {"", "error"}
    THEN <<extractTypeNameFromExpr(results[i])>>
    ELSE FirstReturnType(results, i + 1)

\* analyzServiceFunc (part_001 339-365)
analyzServiceFunc(funcDecl, packageName) ==
  ServiceFuncInfo(packageName, funcDecl.name,
                  FirstReturnType(funcDecl.results, 1),
                  inferDataTypeFromBody(funcDecl.body))

\* ServiceAnalyzer.AnalyzeFile (part_001 314-336) on the declarations from i on
RECURSIVE AnalyzeServiceFile(_, _, _, _)
AnalyzeServiceFile(decls, i, packageName, fns) ==
  IF i > Len(decls) THEN fns
  ELSE AnalyzeServiceFile(decls, i + 1, packageName,
         IF decls[i].exported
           THEN Put(fns, <<packageName, decls[i].name>>,
                    analyzServiceFunc(decls[i], packageName))
           ELSE fns)

(***************************************************************************)
(* Specification SpecRoutes: one function body, drawn from the statement   *)
(* universe below or one of the repository's examples, walked node by      *)
(* node by extractRoutesFromFunc.                                          *)
(***************************************************************************)
P_a == <<"/", "a">>
P_e == <<"/", "e">>
P_i == <<"/", ":", "i">>
P_users == <<"/", "u", "s", "e", "r", "s">>
P_usersId == P_users \o <<"/", ":", "i", "d">>
P_products == <<"/", "p", "r", "o", "d", "u", "c", "t", "s">>
P_productsId == P_products \o <<"/", ":", "i", "d">>
P_apiV1 == <<"/", "a", "p", "i", "/", "v", "1">>
P_id == <<"/", ":", "i", "d">>
P_health == <<"/", "h", "e", "a", "l", "t", "h">>

\* a receiver that is not an identifier: s.engine
EngineField == SelectorExpr(Ident("s"), "engine")

GroupAssign(v, recv, p) ==
  AssignStmt(<<Ident(v)>>, <<MethodCall(recv, "Group", <<StringLit(p)>>)>>)

VerbCall(recv, verb, p, handler) ==
  MethodCall(recv, verb, <<StringLit(p), handler>>)

GroupStmts ==
  {GroupAssign("g", Ident("r"), << >>),
   GroupAssign("g", Ident("r"), P_a),
   GroupAssign("h", Ident("g"), P_i),
   GroupAssign("h", Ident("g"), << >>),
   GroupAssign("g", Ident("g"), P_a),
   GroupAssign("g", EngineField, P_a)}

VerbStmts ==
  {VerbCall(Ident(v), "GET", p, Ident("H")) :
     v \in {"r", "g", "h"}, p \in {<< >>, P_i}}
    \cup {VerbCall(Ident("g"), "POST", P_e, SelectorExpr(Ident("x"), "Create")),
          VerbCall(EngineField, "GET", P_e, FuncLit),
          MethodCall(Ident("r"), "GET", <<StringLit(P_e)>>),
          MethodCall(Ident("r"), "PUT", <<Ident("p"), Ident("H")>>),
          MethodCall(Ident("r"), "Use", <<Ident("H")>>)}

RouteStmtUniverse == GroupStmts \cup VerbStmts

\* examples/gin-sample main (part_008 18-33)
GinSampleMain ==
  <<AssignStmt(<<Ident("r")>>, <<MethodCall(Ident("gin"), "Default", << >>)>>),
    VerbCall(Ident("r"), "GET", P_users, Ident("ListUsers")),
    VerbCall(Ident("r"), "GET", P_usersId, Ident("GetUser")),
    VerbCall(Ident("r"), "POST", P_users, Ident("CreateUser")),
    VerbCall(Ident("r"), "PUT", P_usersId, Ident("UpdateUser")),
    VerbCall(Ident("r"), "DELETE", P_usersId, Ident("DeleteUser")),
    VerbCall(Ident("r"), "GET", P_products, Ident("ListProducts")),
    VerbCall(Ident("r"), "GET", P_productsId, Ident("GetProduct")),
    MethodCall(Ident("r"), "Run", <<StringLit(<<":", "8", "0", "8", "0">>)>>)>>

\* the nested groups of the route-group documentation
\* (internal/webhook/handler.go 292-295)
NestedGroupsExample ==
  <<GroupAssign("v1", Ident("router"), P_apiV1),
    GroupAssign("products", Ident("v1"), P_products),
    VerbCall(Ident("products"), "GET", P_id, Ident("GetProduct"))>>

HealthExample == <<VerbCall(Ident("r"), "GET", P_health, Ident("Health"))>>

RouteBodies ==
  SeqsUpTo(RouteStmtUniverse, MaxStmts)
    \cup {GinSampleMain, NestedGroupsExample, HealthExample}

\* files of two functions: the first binds g, the second uses it
FirstFuncs ==
  {<<GroupAssign("g", Ident("r"), P_a)>>,
   <<GroupAssign("g", Ident("r"), P_a),
     VerbCall(Ident("g"), "GET", P_e, Ident("H"))>>}

SecondFuncs ==
  SeqsUpTo({GroupAssign("g", Ident("r"), P_i),
            GroupAssign("h", Ident("g"), P_i),
            VerbCall(Ident("g"), "GET", P_e, Ident("H")),
            VerbCall(Ident("h"), "GET", P_e, Ident("H"))}, 2)

RouteFiles ==
  {<<Nodes(b, 1)>> : b \in RouteBodies}
    \cup {<<Nodes(a, 1), Nodes(b, 1)>> : a \in FirstFuncs, b \in SecondFuncs}

InitRoutes ==
  /\ rFile \in RouteFiles
  /\ rFn = 1
  /\ fileRoutes = << >>
  /\ rBody = rFile[1]
  /\ rIdx = 0
  /\ groupPrefixes = EmptyMap
  /\ routes = << >>
  /\ ExtractIdle
  /\ HandlerIdle
  /\ AnalyzeIdle
  /\ OthersIdle

\* ast.Inspect reaches the next node of the body
RouteStep ==
  /\ rIdx < Len(rBody)
  /\ LET st == RouteVisit(rBody[rIdx + 1],
                          [prefixes |-> groupPrefixes, routes |-> routes])
     IN /\ groupPrefixes' = st.prefixes
        /\ routes' = st.routes
  /\ rIdx' = rIdx + 1
  /\ UNCHANGED <<rBody, rFile, rFn, fileRoutes, extractVars, handlerVars,
                 analyzeVars, docVars, serviceVars, concVars>>

\* extractRoutesFromFunc returns and ExtractGinRoutes appends its routes
\* (part_002 36-37); ast.Inspect reaches the next function declaration
RouteNextFunc ==
  /\ rFn < Len(rFile)
  /\ rIdx = Len(rBody)
  /\ fileRoutes' = fileRoutes \o routes
  /\ rFn' = rFn + 1
  /\ rBody' = rFile[rFn + 1]
  /\ rIdx' = 0
  /\ groupPrefixes' = LocalGroupPrefixes(groupPrefixes)
  /\ routes' = << >>
  /\ UNCHANGED <<rFile, extractVars, handlerVars, analyzeVars, docVars,
                 serviceVars, concVars>>

\* the last function returns and ExtractGinRoutes with it (part_002 36-44)
RouteFileDone ==
  /\ rFn = Len(rFile)
  /\ rIdx = Len(rBody)
  /\ fileRoutes' = fileRoutes \o routes
  /\ rFn' = rFn + 1
  /\ UNCHANGED <<rBody, rIdx, groupPrefixes, routes, rFile, extractVars,
                 handlerVars, analyzeVars, docVars, serviceVars, concVars>>

NextRoutes == RouteStep \/ RouteNextFunc \/ RouteFileDone

SpecRoutes == InitRoutes /\ [][NextRoutes]_vars

RoutesDone == rBody # << >> /\ rIdx = Len(rBody)

(***************************************************************************)
(* Specification SpecHandler: one handler body, drawn from the statement   *)
(* universe below, analysed node by node in the two passes of              *)
(* analyzeHandlerBody, then linked to a route that names the handler and   *)
(* turned into an operation.                                               *)
(***************************************************************************)
Ctx == Ident("c")
IntLit == BasicLit("INT", <<"2", "0", "0">>)

MapLit == CompositeLit(MapType(InterfaceType))

DeclStmts ==
  {ValueSpec(<<"req">>, Ident("T")),
   ValueSpec(<<"req">>, SelectorExpr(Ident("model"), "T")),
   ValueSpec(<<"q">>, Ident("Q")),
   AssignStmt(<<Ident("user")>>, <<CompositeLit(Ident("User"))>>),
   AssignStmt(<<Ident("req")>>, <<UnaryExpr(CompositeLit(Ident("Other")))>>),
   AssignStmt(<<Ident("data"), Ident("err")>>,
              <<MethodCall(Ident("svc"), "Get", << >>)>>)}

CallStmts ==
  {MethodCall(Ctx, "ShouldBindJSON", <<UnaryExpr(Ident("req"))>>),
   MethodCall(Ctx, "ShouldBindQuery", <<UnaryExpr(Ident("q"))>>),
   MethodCall(Ctx, "JSON", <<IntLit, Ident("user")>>),
   MethodCall(Ctx, "JSON", <<IntLit, MapLit>>),
   MethodCall(Ctx, "JSON", <<IntLit, CompositeLit(Ident("User"))>>),
   MethodCall(Ident("tool"), "SetResponseOK", <<Ctx, Ident("data")>>),
   MethodCall(Ctx, "Query", <<StringLit(<<"p">>)>>)}

HandlerStmtUniverse == DeclStmts \cup CallStmts

HandlerBodies == SeqsUpTo(HandlerStmtUniverse, MaxHandlerStmts)

\* declarations of the service function svc.Get
\* func Get() ([]User, error) { var data []User }
Func_Get ==
  FuncDecl("Get", TRUE, FALSE, <<ArrayType(Ident("User")), Ident("error")>>,
    <<ValueSpec(<<"data">>, ArrayType(Ident("User")))>>)
\* func Get() (error, *Item) { data := User{} }
Func_GetItem ==
  FuncDecl("Get", TRUE, FALSE, <<Ident("error"), StarExpr(Ident("Item"))>>,
    <<AssignStmt(<<Ident("data")>>, <<CompositeLit(Ident("User"))>>)>>)
\* func Get() (Item, error) { var data map[string]interface{} }
Func_GetMapItem ==
  FuncDecl("Get", TRUE, FALSE, <<Ident("Item"), Ident("error")>>,
    <<ValueSpec(<<"data">>, MapType(InterfaceType))>>)
\* func Get() (Item, error) { }
Func_GetNoData ==
  FuncDecl("Get", TRUE, FALSE, <<Ident("Item"), Ident("error")>>, << >>)
\* func Get() (interface{}, error) { var data map[string]interface{} }
Func_GetMap ==
  FuncDecl("Get", TRUE, FALSE, <<InterfaceType, Ident("error")>>,
    <<ValueSpec(<<"data">>, MapType(InterfaceType))>>)
\* func Get() error { }
Func_GetNothing == FuncDecl("Get", TRUE, FALSE, <<Ident("error")>>, << >>)

ServiceFuncs ==
  {Func_Get, Func_GetItem, Func_GetMapItem, Func_GetNoData, Func_GetMap,
   Func_GetNothing}

\* states of the service analyzer's function map: no function, or svc.Get
\* analysed from one of the declarations
ServiceMaps ==
  {EmptyMap}
    \cup {AnalyzeServiceFile(<<f>>, 1, <<"svc">>, EmptyMap) : f \in ServiceFuncs}

InitHandler ==
  /\ hBody \in {Nodes(b, 1) : b \in HandlerBodies}
  /\ hPass = 1
  /\ hIdx = 0
  /\ varTypes = EmptyMap
  /\ hInfo = NewHandlerInfo("H")
  /\ hService = EmptyMap
  /\ hRoute = [method |-> ""]
  /\ hOp = NoOperation
  /\ ExtractIdle
  /\ RouteIdle
  /\ AnalyzeIdle
  /\ OthersIdle

\* the first ast.Inspect reaches the next node
HandlerFirstPass ==
  /\ hPass = 1
  /\ hIdx < Len(hBody)
  /\ LET st == FirstPassVisit(hBody[hIdx + 1],
                              [varTypes |-> varTypes, info |-> hInfo])
     IN /\ varTypes' = st.varTypes
        /\ hInfo' = st.info
  /\ hIdx' = hIdx + 1
  /\ UNCHANGED <<hBody, hPass, hService, hRoute, hOp, extractVars, routeVars,
                 analyzeVars,
                 docVars, serviceVars, concVars>>

\* the first ast.Inspect returns and the second starts
HandlerSecondPassStart ==
  /\ hPass = 1
  /\ hIdx = Len(hBody)
  /\ hPass' = 2
  /\ hIdx' = 0
  /\ UNCHANGED <<hBody, varTypes, hInfo, hService, hRoute, hOp,
                 extractVars, routeVars, analyzeVars,
                 docVars, serviceVars, concVars>>

\* the second ast.Inspect reaches the next node
HandlerSecondPass ==
  /\ hPass = 2
  /\ hIdx < Len(hBody)
  /\ LET st == SecondPassVisit(hBody[hIdx + 1],
                               [varTypes |-> varTypes, info |-> hInfo])
     IN /\ varTypes' = st.varTypes
        /\ hInfo' = st.info
  /\ hIdx' = hIdx + 1
  /\ UNCHANGED <<hBody, hPass, hService, hRoute, hOp, extractVars, routeVars,
                 analyzeVars,
                 docVars, serviceVars, concVars>>

\* the methods the handler is registered under
HandlerMethods == {"GET", "POST", "PUT", "PATCH", "DELETE"}

\* the second walk of Analyze finds a route that names the handler, links it
\* and builds its operation (gin_parser.go 147-159)
HandlerLink ==
  /\ hPass = 2
  /\ hIdx = Len(hBody)
  /\ \E method \in HandlerMethods, fns \in ServiceMaps :
       LET route == parseGinRouteCall(
                      VerbCall(Ident("r"), method, P_i, Ident(hInfo.name)),
                      EmptyMap)
           linked == LinkRoute(route, hInfo.name :> hInfo, fns)
       IN /\ hService' = fns
          /\ hRoute' = linked
          /\ hOp' = ToOperation(linked)
  /\ hPass' = 3
  /\ UNCHANGED <<hBody, hIdx, varTypes, hInfo, extractVars, routeVars,
                 analyzeVars,
                 docVars, serviceVars, concVars>>

NextHandler ==
  \/ HandlerFirstPass
  \/ HandlerSecondPassStart
  \/ HandlerSecondPass
  \/ HandlerLink

SpecHandler == InitHandler /\ [][NextHandler]_vars

\* analyzeHandlerBody has returned
HandlerAnalysed == hPass = 3 \/ (hPass = 2 /\ hIdx = Len(hBody))

HandlerLinked == hPass = 3

(***************************************************************************)
(* Specification SpecExtract: one declaration, drawn from the field        *)
(* universe, extracted field by field against an empty sa.structs.         *)
(***************************************************************************)
FieldNames == {<<"A">>, <<"B">>, <<"I", "D">>, <<"a">>}

FieldNameLists ==
  {<<n>> : n \in FieldNames} \cup {<<"A">>, <<"B">>} \X {<<"B">>, <<"X">>}
    \cup {<< <<"a">>, <<"B">> >>}

BasicTypeExprs == {Ident("string"), Ident("int"), Ident("bool")}

JSONTags ==
  {NoTag,
   Tag(<< <<"a">> >>, << >>),
   Tag(<< <<"-">> >>, << >>),
   Tag(<< <<"b">>, "omitempty" >>, << >>),
   Tag(<< << >>, "omitempty" >>, <<"required">>),
   Tag(<< >>, <<"required", "email">>)}

FieldUniverse ==
  {Field(ns, t, NoTag) : ns \in FieldNameLists, t \in BasicTypeExprs}
    \cup {Field(<<n>>, Ident("string"), tag) : n \in {<<"A">>, <<"B">>},
                                                tag \in JSONTags}
    \cup {Field(<< >>, t, NoTag) :
            t \in {Ident("Base"), StarExpr(Ident("Base")),
                   SelectorExpr(Ident("model"), "Base"), ArrayType(Ident("Base"))}}
    \cup {Field(<<<<"X">>>>, t, NoTag) :
            t \in {Ident("User"), ArrayType(Ident("User")),
                   SelectorExpr(Ident("time"), "Time"), MapType(Ident("int")),
                   InterfaceType, Ident("float64")}}

InitExtract ==
  /\ xDecl \in {StructDecl("T", fs) : fs \in SeqsUpTo(FieldUniverse, MaxFields)}
  /\ xIdx = 0
  /\ xProps = EmptyMap
  /\ xRequired = << >>
  /\ xEmbedded = << >>
  /\ RouteIdle
  /\ HandlerIdle
  /\ AnalyzeIdle
  /\ OthersIdle

\* the next iteration of the loop over structType.Fields.List
ExtractNextField ==
  /\ xIdx < Len(xDecl.fields)
  /\ LET acc == ExtractField(xDecl.fields[xIdx + 1],
                             [props |-> xProps, required |-> xRequired,
                              embedded |-> xEmbedded],
                             EmptyMap)
     IN /\ xProps' = acc.props
        /\ xRequired' = acc.required
        /\ xEmbedded' = acc.embedded
  /\ xIdx' = xIdx + 1
  /\ UNCHANGED <<xDecl, routeVars, handlerVars, analyzeVars,
                 docVars, serviceVars, concVars>>

NextExtract == ExtractNextField

SpecExtract == InitExtract /\ [][NextExtract]_vars

ExtractDone == xDecl # NoDecl /\ xIdx = Len(xDecl.fields)

(***************************************************************************)
(* AnalyzeHandlers (part_001 26-55), ExtractGinRoutes (part_002 24-45)     *)
(***************************************************************************)
RECURSIVE AnalyzeHandlers(_, _, _)
AnalyzeHandlers(decls, i, handlers) ==
  IF i > Len(decls) THEN handlers
  ELSE AnalyzeHandlers(decls, i + 1,
         IF decls[i].gin
           THEN Put(handlers, decls[i].name,
                    analyzeHandlerBody(decls[i].name, decls[i].body))
           ELSE handlers)

RECURSIVE ExtractGinRoutes(_, _)
ExtractGinRoutes(decls, i) ==
  IF i > Len(decls) THEN << >>
  ELSE extractRoutesFromFunc(decls[i].body) \o ExtractGinRoutes(decls, i + 1)

(***************************************************************************)
(* StructAnalyzer.AnalyzeFileWithPackage (part_001 538-569) on             *)
(*   sa = [structs, structPriority, embeddedFields, heap]                  *)
(* A package name is a sequence of tokens; strings.Contains is decided on  *)
(* the tokens.                                                             *)
(***************************************************************************)
Has(s, tok) == \E i \in 1..Len(s) : s[i] = tok

calculatePriority(packageName) ==
  IF \/ packageName \in {<<"model">>, <<"picture">>, <<"dao">>}
     \/ Has(packageName, "dao")
     \/ Has(packageName, "model")
    THEN 100
  ELSE IF packageName = <<"service">> \/ Has(packageName, "service")
    THEN 50
  ELSE 10

\* the priority test that lets only a higher priority overwrite
OverwritesOnlyHigher(priority, existingPriority) == priority > existingPriority

\* the priority test of part_001 562
Overwrites(priority, existingPriority) == priority >= existingPriority

\* the callback of AnalyzeFileWithPackage on one struct declaration
AnalyzeDecl(decl, priority, sa) ==
  LET old == IF decl.name \in DOMAIN sa.embeddedFields
               THEN sa.embeddedFields[decl.name] ELSE << >>
      acc == extractStructSchemaWithName(decl, old, sa.structs)
      overwrite == \/ decl.name \notin DOMAIN sa.structPriority
                   \/ Overwrites(priority, sa.structPriority[decl.name])
  IN [structs |->
        IF overwrite
          THEN Put(sa.structs, decl.name,
                   [props |-> Len(sa.heap) + 1, required |-> acc.required])
          ELSE sa.structs,
      structPriority |->
        IF overwrite THEN Put(sa.structPriority, decl.name, priority)
        ELSE sa.structPriority,
      embeddedFields |->
        IF acc.embedded # << >>
          THEN Put(sa.embeddedFields, decl.name, acc.embedded)
          ELSE sa.embeddedFields,
      heap |-> Append(sa.heap, acc.props)]

RECURSIVE AnalyzeFileWithPackage(_, _, _, _)
AnalyzeFileWithPackage(decls, i, packageName, sa) ==
  IF i > Len(decls) THEN sa
  ELSE AnalyzeFileWithPackage(decls, i + 1, packageName,
         AnalyzeDecl(decls[i], calculatePriority(packageName), sa))

(***************************************************************************)
(* StructAnalyzer.ExpandEmbeddedFields (part_001 597-643) on               *)
(*   st = [structs, heap]                                                  *)
(***************************************************************************)
\* the embedded properties win (the merge without its existence test)
MergePropsOverwrite(own, embedded) ==
  [k \in DOMAIN own \cup DOMAIN embedded |->
     IF k \in DOMAIN embedded THEN embedded[k] ELSE own[k]]

\* the merge that leaves the owner's properties as they are
MergePropsOwn(own, embedded) == own

\* part_001 613-619
MergeProps(own, embedded) ==
  [k \in DOMAIN own \cup DOMAIN embedded |->
     IF k \in DOMAIN own THEN own[k] ELSE embedded[k]]

\* part_001 627-639
RECURSIVE MergeRequired(_, _, _)
MergeRequired(own, embedded, i) ==
  IF i > Len(embedded) THEN own
  ELSE MergeRequired(IF embedded[i] \in Range(own) THEN own
                     ELSE Append(own, embedded[i]),
                     embedded, i + 1)

\* part_001 606-640: one embedded type of one owner
ExpandOne(structName, embeddedType, st) ==
  IF embeddedType \notin DOMAIN st.structs THEN st
  ELSE LET schema == st.structs[structName]
           embeddedSchema == st.structs[embeddedType]
       IN [structs |->
             [st.structs EXCEPT
                ![structName].required =
                   MergeRequired(@, embeddedSchema.required, 1)],
           heap |->
             [st.heap EXCEPT
                ![schema.props] = MergeProps(@, st.heap[embeddedSchema.props])]]

RECURSIVE ExpandTypes(_, _, _, _)
ExpandTypes(structName, embeddedTypes, i, st) ==
  IF i > Len(embeddedTypes) THEN st
  ELSE ExpandTypes(structName, embeddedTypes, i + 1,
                   ExpandOne(structName, embeddedTypes[i], st))

\* part_001 599-641: the owners in the order the range over the map yields
RECURSIVE ExpandOwners(_, _, _, _)
ExpandOwners(order, i, embedded, st) ==
  IF i > Len(order) THEN st
  ELSE ExpandOwners(order, i + 1, embedded,
         IF order[i] \in DOMAIN st.structs
           THEN ExpandTypes(order[i], embedded[order[i]], 1, st)
           ELSE st)

\* the orders in which a range over a Go map with key set S can yield the keys
IterationOrders(S) ==
  {o \in [1..Cardinality(S) -> S] :
     \A i, j \in 1..Cardinality(S) : i # j => o[i] # o[j]}

(***************************************************************************)
(* openapi.Spec (part_006 75-124)                                          *)
(***************************************************************************)
\* AddPath that starts from a new PathItem on every call
AddPathFresh(s, path, method, operation) ==
  [s EXCEPT !.paths =
     Put(@, path,
         IF method \in {"GET", "POST", "PUT", "DELETE", "PATCH", "HEAD",
                        "OPTIONS"}
           THEN Put(EmptyMap, method, operation)
           ELSE EmptyMap)]

AddPath(s, path, method, operation) ==
  LET pathItem == IF path \in DOMAIN s.paths THEN s.paths[path] ELSE EmptyMap
  IN [s EXCEPT !.paths =
        Put(@, path,
            IF method \in {"GET", "POST", "PUT", "DELETE", "PATCH", "HEAD",
                           "OPTIONS"}
              THEN Put(pathItem, method, operation)
              ELSE pathItem)]

AddSchema(s, name, schema) == [s EXCEPT !.schemas = Put(@, name, schema)]

\* *schema for a stored struct schema (gin_parser.go 98)
SchemaValue(stored) ==
  [TypeSchema("object") EXCEPT !.props = stored.props,
                               !.required = stored.required]

\* the Properties of the ApiResponse schema (gin_parser.go 104-117)
ApiResponseProperties ==
  (<<"c", "o", "d", "e">> :>
     [TypeSchema("integer") EXCEPT !.description = "code"])
  @@ (<<"m", "e", "s", "s", "a", "g", "e">> :>
     [TypeSchema("string") EXCEPT !.description = "message"])
  @@ (<<"d", "a", "t", "a">> :>
     [TypeSchema("object") EXCEPT !.description = "data"])

\* gin_parser.go 97-118
AddAllSchemas(s, sas, h) ==
  LET all == [s EXCEPT !.schemas =
                [n \in DOMAIN s.schemas \cup DOMAIN sas |->
                   IF n \in DOMAIN sas THEN SchemaValue(sas[n])
                   ELSE s.schemas[n]]]
  IN AddSchema(all, "ApiResponse",
               [TypeSchema("object") EXCEPT !.props = Len(h) + 1])

\* The value of a schema as its holder reads it (as it is serialized): the
\* Properties map followed through the heap, to depth d.
RECURSIVE Unfold(_, _, _)
Unfold(s, h, d) ==
  [type |-> s.type, format |-> s.format, description |-> s.description,
   required |-> s.required, ref |-> s.ref,
   props |-> IF s.props = Nil \/ d = 0 THEN EmptyMap
             ELSE [k \in DOMAIN h[s.props] |-> Unfold(h[s.props][k], h, d - 1)],
   items |-> IF s.items = << >> THEN << >>
             ELSE <<Unfold(s.items[1], h, d)>>,
   addl |-> IF s.addl = << >> THEN << >>
            ELSE <<Unfold(s.addl[1], h, d)>>]

\* the Document a caller of Analyze holds
Document(s, h) ==
  [schemas |-> [n \in DOMAIN s.schemas |-> Unfold(s.schemas[n], h, MaxDepth)],
   paths |-> s.paths]

(***************************************************************************)
(* The source tree and filepath.Walk.  An entry is what the walk hands to  *)
(* its callback below the root:                                            *)
(*   [dirs, base, isDir, err, parses, structs, funcs]                      *)
(* dirs the directory names between the root and the entry, base the       *)
(* entry's own name split before its suffix, err whether the walk reports  *)
(* an error for the entry, parses whether parser.ParseFile succeeds.  The  *)
(* root path itself has no part named service, vendor, tools or .git.      *)
(***************************************************************************)
GoFile(dirs, stem, decls, funcs) ==
  [dirs |-> dirs, base |-> <<stem, ".go">>, isDir |-> FALSE, err |-> FALSE,
   parses |-> TRUE, structs |-> decls, funcs |-> funcs]

\* the last part of the root path
RootName == <<"proj">>

LastOf(s) == s[Len(s)]

\* gin_parser.go 44-54: the entries the callback leaves alone
Skips(e) ==
  \/ e.isDir
  \/ LastOf(e.base) \notin {".go", "_test.go"}
  \/ LastOf(e.base) = "_test.go"
  \/ \E i \in 1..Len(e.dirs) : e.dirs[i] \in {<<"vendor">>, <<"tools">>, <<".git">>}

\* extractPackageNameFromPath (gin_parser.go 173-181)
extractPackageNameFromPath(e) ==
  IF e.dirs = << >> THEN RootName ELSE LastOf(e.dirs)

\* gin_parser.go 67-78: the part after the first part "service", << >> when
\* the path has no "/service/"
ServicePackage(e) ==
  LET is == {i \in 1..Len(e.dirs) : e.dirs[i] = <<"service">>}
      i == CHOOSE i \in is : \A j \in is : i <= j
  IN IF is = {} THEN << >>
     ELSE IF i < Len(e.dirs) THEN e.dirs[i + 1] ELSE e.base

\* parser.ParseFile that accepts every file
ParseNeverFails(e) == FALSE

\* parser.ParseFile returns an error for the file (gin_parser.go 58-61, 140-143)
ParseFails(e) == ~e.parses

\* the merge that fills the empty types of a file's handler from the entry
\* already stored under its name
MergeHandlersFieldwise(infos, handlers) ==
  [n \in DOMAIN infos \cup DOMAIN handlers |->
     IF n \in DOMAIN handlers
       THEN IF n \in DOMAIN infos
              THEN [handlers[n] EXCEPT
                      !.requestType =
                         IF @ = << >> THEN infos[n].requestType ELSE @,
                      !.responseType =
                         IF @ = << >> THEN infos[n].responseType ELSE @]
              ELSE handlers[n]
       ELSE infos[n]]

\* handlerInfoMap[name] = handler for every handler of the file
\* (gin_parser.go 82-84)
MergeHandlers(infos, handlers) ==
  [n \in DOMAIN infos \cup DOMAIN handlers |->
     IF n \in DOMAIN handlers THEN handlers[n] ELSE infos[n]]

\* the callback of the first walk (gin_parser.go 39-88) on entry e, on
\*   st = [structs, structPriority, embeddedFields, heap, functions,
\*         handlerInfoMap]
FirstWalkFunc(e, st) ==
  IF e.err \/ Skips(e) \/ ParseFails(e) THEN st
  ELSE LET sa == AnalyzeFileWithPackage(
                   e.structs, 1, extractPackageNameFromPath(e),
                   [structs |-> st.structs,
                    structPriority |-> st.structPriority,
                    embeddedFields |-> st.embeddedFields,
                    heap |-> st.heap])
           handlers == AnalyzeHandlers(e.funcs, 1, EmptyMap)
       IN [structs |-> sa.structs,
           structPriority |-> sa.structPriority,
           embeddedFields |-> sa.embeddedFields,
           heap |-> sa.heap,
           functions |->
             IF ServicePackage(e) # << >>
               THEN AnalyzeServiceFile(e.funcs, 1, ServicePackage(e),
                                       st.functions)
               ELSE st.functions,
           handlerInfoMap |-> MergeHandlers(st.handlerInfoMap, handlers)]

\* gin_parser.go 146-160: the routes of one file linked and added
RECURSIVE AddRoutes(_, _, _, _, _)
AddRoutes(rs, i, infos, fns, s) ==
  IF i > Len(rs) THEN s
  ELSE LET route == LinkRoute(rs[i], infos, fns)
       IN AddRoutes(rs, i + 1, infos, fns,
                    AddPath(s, route.path, route.method, ToOperation(route)))

\* the callback of the second walk (gin_parser.go 121-163) on entry e
SecondWalkFunc(e, infos, fns, s) ==
  IF e.err \/ Skips(e) \/ ParseFails(e) THEN s
  ELSE AddRoutes(ExtractGinRoutes(e.funcs, 1), 1, infos, fns, s)

\* filepath.Walk over the entries es with the first callback (gin_parser.go
\* 39-88) and with the second (121-163), from entry i on
RECURSIVE FirstWalk(_, _, _)
FirstWalk(es, i, st) ==
  IF i > Len(es) THEN st ELSE FirstWalk(es, i + 1, FirstWalkFunc(es[i], st))

RECURSIVE SecondWalk(_, _, _, _, _)
SecondWalk(es, i, infos, fns, s) ==
  IF i > Len(es) THEN s
  ELSE SecondWalk(es, i + 1, infos, fns, SecondWalkFunc(es[i], infos, fns, s))

\* gin_parser.go 34-36: the analyzers of a run, all empty
NewAnalyzers ==
  [structs |-> EmptyMap, structPriority |-> EmptyMap,
   embeddedFields |-> EmptyMap, heap |-> << >>, functions |-> EmptyMap,
   handlerInfoMap |-> EmptyMap]

\* What filepath.Walk returns to Analyze: the first error its callback
\* returns.  The callback returns nil on every path (gin_parser.go 41, 45,
\* 53, 60, 87 and 123, 127, 135, 142, 162), also when the walk hands it the
\* error of an inaccessible root.
WalkError == << >>

(***************************************************************************)
(* Specification SpecAnalyze: GinParser.Analyze (gin_parser.go 27-170)     *)
(* called twice on a source tree drawn from the files below, one action    *)
(* per callback of the two walks.                                          *)
(***************************************************************************)
N_id == <<"I", "d">>
N_x == <<"X">>
N_d == <<"D">>
N_b == <<"B">>

Pkg_handler == <<"handler">>
Pkg_model == <<"model">>

\* type T struct { Base; X string }
T_handler ==
  StructDecl("T", <<Field(<< >>, Ident("Base"), NoTag),
                    Field(<<N_x>>, Ident("string"), NoTag)>>)
\* type T struct { Id int }
T_model == StructDecl("T", <<Field(<<N_id>>, Ident("int"), NoTag)>>)
\* type T struct { X string }
T_dao == StructDecl("T", <<Field(<<N_x>>, Ident("string"), NoTag)>>)
\* type Base struct { D string }
Base_model == StructDecl("Base", <<Field(<<N_d>>, Ident("string"), NoTag)>>)
\* type U struct { B Base }
U_model == StructDecl("U", <<Field(<<N_b>>, Ident("Base"), NoTag)>>)
\* type A struct { B; X int }
A_model ==
  StructDecl("A", <<Field(<< >>, Ident("B"), NoTag),
                    Field(<<N_x>>, Ident("int"), NoTag)>>)
\* type B struct { *C; X string; Id string }
B_model ==
  StructDecl("B", <<Field(<< >>, StarExpr(Ident("C")), NoTag),
                    Field(<<N_x>>, Ident("string"), NoTag),
                    Field(<<N_id>>, Ident("string"), NoTag)>>)
\* type C struct { D string }
C_model == StructDecl("C", <<Field(<<N_d>>, Ident("string"), NoTag)>>)

\* type Node struct { Link; X int }
Node_model ==
  StructDecl("Node", <<Field(<< >>, Ident("Link"), NoTag),
                       Field(<<N_x>>, Ident("int"), NoTag)>>)
\* type Link struct { D Node }
Link_model == StructDecl("Link", <<Field(<<N_d>>, Ident("Node"), NoTag)>>)

\* func H(c *gin.Context) { var req T; c.ShouldBindJSON(&req);
\*                          data, err := svc.Get(); tool.SetResponseOK(c, data) }
Func_H ==
  FuncDecl("H", TRUE, TRUE, << >>,
    <<ValueSpec(<<"req">>, Ident("T")),
      MethodCall(Ctx, "ShouldBindJSON", <<UnaryExpr(Ident("req"))>>),
      AssignStmt(<<Ident("data"), Ident("err")>>,
                 <<MethodCall(Ident("svc"), "Get", << >>)>>),
      MethodCall(Ident("tool"), "SetResponseOK", <<Ctx, Ident("data")>>)>>)

\* func main() { r.POST("/:i", H) }
Func_main ==
  FuncDecl("main", FALSE, FALSE, << >>,
    <<VerbCall(Ident("r"), "POST", P_i, Ident("H"))>>)

File_handler == GoFile(<<Pkg_handler>>, "h", <<T_handler>>, <<Func_H, Func_main>>)
File_modelT == GoFile(<<Pkg_model>>, "t", <<T_model>>, << >>)
File_daoT == GoFile(<<<<"dao">>>>, "t", <<T_dao>>, << >>)
File_base == GoFile(<<Pkg_model>>, "b", <<Base_model, U_model>>, << >>)
File_chain == GoFile(<<Pkg_model>>, "c", <<A_model, B_model, C_model>>, << >>)
\* func H(c *gin.Context) { c.JSON(200, User{}) }
Func_H_api ==
  FuncDecl("H", TRUE, TRUE, << >>,
    <<MethodCall(Ctx, "JSON", <<IntLit, CompositeLit(Ident("User"))>>)>>)
\* func routes() { r.GET("/a", handler.H) }
Func_routes ==
  FuncDecl("routes", FALSE, FALSE, << >>,
    <<VerbCall(Ident("r"), "GET", P_a, SelectorExpr(Ident("handler"), "H"))>>)

File_api == GoFile(<<<<"api">>>>, "a", << >>, <<Func_H_api, Func_routes>>)
File_cycle == GoFile(<<Pkg_model>>, "n", <<Node_model, Link_model>>, << >>)
File_service == GoFile(<<<<"service">>, <<"svc">>>>, "s", << >>, <<Func_Get>>)
\* a file parser.ParseFile rejects
File_broken == [File_modelT EXCEPT !.base = <<"x", ".go">>, !.parses = FALSE]
\* a directory the walk cannot read
Dir_unreadable ==
  [dirs |-> << >>, base |-> <<"d", "">>, isDir |-> TRUE, err |-> TRUE,
   parses |-> FALSE, structs |-> << >>, funcs |-> << >>]
\* a test file
File_test == [File_chain EXCEPT !.base = <<"c", "_test.go">>]

FileUniverse ==
  {File_handler, File_modelT, File_daoT, File_base, File_chain, File_cycle,
   File_service, File_api, File_broken, Dir_unreadable, File_test}

\* the trees: an inaccessible root, or the entries below an accessible root
\* in the order the walk visits them
Trees ==
  {[rootOk |-> FALSE, entries |-> << >>]}
    \cup {[rootOk |-> TRUE, entries |-> es] :
            es \in {s \in SeqsUpTo(FileUniverse, MaxEntries) :
                      \A i, j \in 1..Len(s) : i # j => s[i] # s[j]}}

\* gin_parser.go 28-37: a new Document and new analyzers
StartAnalyze ==
  /\ pc' = "walk1"
  /\ pos' = 0
  /\ structs' = EmptyMap
  /\ structPriority' = EmptyMap
  /\ embeddedFields' = EmptyMap
  /\ heap' = << >>
  /\ functions' = EmptyMap
  /\ handlerInfoMap' = EmptyMap
  /\ spec' = NewSpec

InitAnalyze ==
  /\ tree \in Trees
  /\ pc = "walk1"
  /\ pos = 0
  /\ run = 1
  /\ structs = EmptyMap
  /\ structPriority = EmptyMap
  /\ embeddedFields = EmptyMap
  /\ heap = << >>
  /\ functions = EmptyMap
  /\ handlerInfoMap = EmptyMap
  /\ spec = NewSpec
  /\ result = NoResult
  /\ firstResult = NoResult
  /\ ExtractIdle
  /\ RouteIdle
  /\ HandlerIdle
  /\ OthersIdle

\* the walk has made its last call of the callback
WalkEnds == ~tree.rootOk \/ pos = Len(tree.entries)

\* gin_parser.go 89-91 after the first walk
AfterFirstWalk ==
  IF WalkError # << >>
    THEN /\ pc' = "done"
         /\ pos' = 0
         /\ result' = [spec |-> << >>, err |-> WalkError]
    ELSE /\ pc' = "expand"
         /\ pos' = 0
         /\ UNCHANGED result

\* gin_parser.go 165-169 after the second walk
AfterSecondWalk ==
  /\ pc' = "done"
  /\ pos' = 0
  /\ result' = IF WalkError # << >>
                 THEN [spec |-> << >>, err |-> WalkError]
                 ELSE [spec |-> <<Document(spec', heap)>>, err |-> << >>]

\* the first walk calls the callback on the root: with the error of Lstat when
\* the root is inaccessible (gin_parser.go 40-42), else on a directory (44-46)
FirstWalkRoot ==
  /\ pc = "walk1"
  /\ pos = 0
  /\ IF WalkEnds THEN AfterFirstWalk
     ELSE pos' = 1 /\ UNCHANGED <<pc, result>>
  /\ UNCHANGED <<tree, run, structs, structPriority, embeddedFields, heap,
                 functions, handlerInfoMap, spec, firstResult,
                 extractVars, routeVars, handlerVars,
                 docVars, serviceVars, concVars>>

\* the first walk calls the callback on the next entry
FirstWalkEntry ==
  /\ pc = "walk1"
  /\ pos \in 1..Len(tree.entries)
  /\ LET st == FirstWalkFunc(tree.entries[pos],
                             [structs |-> structs,
                              structPriority |-> structPriority,
                              embeddedFields |-> embeddedFields,
                              heap |-> heap,
                              functions |-> functions,
                              handlerInfoMap |-> handlerInfoMap])
     IN /\ structs' = st.structs
        /\ structPriority' = st.structPriority
        /\ embeddedFields' = st.embeddedFields
        /\ heap' = st.heap
        /\ functions' = st.functions
        /\ handlerInfoMap' = st.handlerInfoMap
  /\ IF WalkEnds THEN AfterFirstWalk
     ELSE pos' = pos + 1 /\ UNCHANGED <<pc, result>>
  /\ UNCHANGED <<tree, run, spec, firstResult,
                 extractVars, routeVars, handlerVars,
                 docVars, serviceVars, concVars>>

\* gin_parser.go 94: the range over sa.embeddedFields yields the owners in
\* an order the language leaves open
ExpandEmbeddedFields ==
  /\ pc = "expand"
  /\ \E order \in IterationOrders(DOMAIN embeddedFields) :
       LET st == ExpandOwners(order, 1, embeddedFields,
                              [structs |-> structs, heap |-> heap])
       IN /\ structs' = st.structs
          /\ heap' = st.heap
  /\ pc' = "schemas"
  /\ UNCHANGED <<tree, pos, run, structPriority, embeddedFields, functions,
                 handlerInfoMap, spec, result, firstResult,
                 extractVars, routeVars, handlerVars,
                 docVars, serviceVars, concVars>>

\* gin_parser.go 97-118
AddSchemas ==
  /\ pc = "schemas"
  /\ spec' = AddAllSchemas(spec, structs, heap)
  /\ heap' = Append(heap, ApiResponseProperties)
  /\ pc' = "walk2"
  /\ UNCHANGED <<tree, pos, run, structs, structPriority, embeddedFields,
                 functions, handlerInfoMap, result, firstResult,
                 extractVars, routeVars, handlerVars,
                 docVars, serviceVars, concVars>>

\* the second walk calls the callback on the root (gin_parser.go 122-128)
SecondWalkRoot ==
  /\ pc = "walk2"
  /\ pos = 0
  /\ spec' = spec
  /\ IF WalkEnds THEN AfterSecondWalk
     ELSE pos' = 1 /\ UNCHANGED <<pc, result>>
  /\ UNCHANGED <<tree, run, structs, structPriority, embeddedFields, heap,
                 functions, handlerInfoMap, firstResult,
                 extractVars, routeVars, handlerVars,
                 docVars, serviceVars, concVars>>

\* the second walk on the next entry, storing the inferred response type in
\* the handler info it links
SecondWalkEntryStoring ==
  /\ pc = "walk2"
  /\ pos \in 1..Len(tree.entries)
  /\ spec' = SecondWalkFunc(tree.entries[pos], handlerInfoMap, functions, spec)
  /\ handlerInfoMap' =
       [h \in DOMAIN handlerInfoMap |->
          LET inferred == inferResponseTypeFromServiceCalls(handlerInfoMap[h],
                                                           functions)
          IN IF inferred # << >>
               THEN [handlerInfoMap[h] EXCEPT !.responseType = inferred]
               ELSE handlerInfoMap[h]]
  /\ IF WalkEnds THEN AfterSecondWalk
     ELSE pos' = pos + 1 /\ UNCHANGED <<pc, result>>
  /\ UNCHANGED <<tree, run, structs, structPriority, embeddedFields, heap,
                 functions, firstResult,
                 extractVars, routeVars, handlerVars,
                 docVars, serviceVars, concVars>>

\* the second walk calls the callback on the next entry
SecondWalkEntry ==
  /\ pc = "walk2"
  /\ pos \in 1..Len(tree.entries)
  /\ spec' = SecondWalkFunc(tree.entries[pos], handlerInfoMap, functions, spec)
  /\ IF WalkEnds THEN AfterSecondWalk
     ELSE pos' = pos + 1 /\ UNCHANGED <<pc, result>>
  /\ UNCHANGED <<tree, run, structs, structPriority, embeddedFields, heap,
                 functions, handlerInfoMap, firstResult,
                 extractVars, routeVars, handlerVars,
                 docVars, serviceVars, concVars>>

\* Analyze is called again on the unchanged tree
AnalyzeAgain ==
  /\ pc = "done"
  /\ run = 1
  /\ run' = 2
  /\ firstResult' = result
  /\ result' = NoResult
  /\ StartAnalyze
  /\ UNCHANGED <<tree, extractVars, routeVars, handlerVars,
                 docVars, serviceVars, concVars>>

NextAnalyze ==
  \/ FirstWalkRoot
  \/ FirstWalkEntry
  \/ ExpandEmbeddedFields
  \/ AddSchemas
  \/ SecondWalkRoot
  \/ SecondWalkEntry
  \/ AnalyzeAgain

SpecAnalyze == InitAnalyze /\ [][NextAnalyze]_vars

\* Analyze has returned
AnalyzeDone == pc = "done"

(***************************************************************************)
(* Specification SpecService: inferDataTypeFromBody (part_001 368-415) on  *)
(* one service function body drawn from the statements below, node by      *)
(* node, then its return.                                                  *)
(***************************************************************************)
ServiceStmtUniverse ==
  {ValueSpec(<<"data">>, ArrayType(Ident("User"))),
   ValueSpec(<<"data">>, SelectorExpr(Ident("model"), "Item")),
   ValueSpec(<<"data">>, MapType(InterfaceType)),
   ValueSpec(<<"data">>, InterfaceType),
   ValueSpec(<<"n">>, Ident("int")),
   AssignStmt(<<Ident("data")>>, <<CompositeLit(Ident("User"))>>),
   AssignStmt(<<Ident("data"), Ident("err")>>,
              <<MethodCall(Ident("dao"), "Find", << >>)>>),
   AssignStmt(<<Ident("data")>>,
              <<CallExpr(Ident("make"),
                         <<SelectorExpr(Ident("model"), "Page"), Ident("n")>>)>>)}

ServiceBodies == SeqsUpTo(ServiceStmtUniverse, MaxServiceStmts)

InitService ==
  /\ sBody \in {Nodes(b, 1) : b \in ServiceBodies}
  /\ sIdx = 0
  /\ inferredType = << >>
  /\ lastDataType = << >>
  /\ sReturn = << >>
  /\ ExtractIdle
  /\ RouteIdle
  /\ HandlerIdle
  /\ AnalyzeIdle
  /\ DocumentIdle
  /\ ConcurrentIdle

\* ast.Inspect reaches the next node of the body
ServiceVisit ==
  /\ sIdx < Len(sBody)
  /\ LET st == InferVisit(sBody[sIdx + 1],
                          [inferredType |-> inferredType,
                           lastDataType |-> lastDataType])
     IN /\ inferredType' = st.inferredType
        /\ lastDataType' = st.lastDataType
  /\ sIdx' = sIdx + 1
  /\ UNCHANGED <<sBody, sReturn, extractVars, routeVars, handlerVars,
                 analyzeVars, docVars, concVars>>

\* part_001 408-414: the fallback to the last type seen, and the return
ServiceReturn ==
  /\ sIdx = Len(sBody)
  /\ sReturn = << >>
  /\ inferredType' = IF inferredType = << >> /\ lastDataType # << >>
                       THEN lastDataType ELSE inferredType
  /\ sReturn' = <<inferredType'>>
  /\ UNCHANGED <<sBody, sIdx, lastDataType, extractVars, routeVars,
                 handlerVars, analyzeVars, docVars, concVars>>

NextService == ServiceVisit \/ ServiceReturn

SpecService == InitService /\ [][NextService]_vars

(***************************************************************************)
(* Specification SpecDocument: a new Spec under a sequence of AddSchema    *)
(* and AddPath calls (part_006 90-124), the arguments drawn from the sets  *)
(* below; TRACE is a method AddPath has no case for.                       *)
(***************************************************************************)
DocNames == {"T", "U"}
DocSchemas == {TypeSchema("object"), RefSchema(<<"T">>)}
DocPaths == {P_a, P_i}
DocMethods == {"GET", "POST", "TRACE"}
DocOperations ==
  {ToOperation(parseGinRouteCall(VerbCall(Ident("r"), m, P_i, Ident("H")),
                                 EmptyMap)) : m \in {"GET", "POST"}}

InitDocument ==
  /\ doc = NewSpec
  /\ docCall = NoCall
  /\ docCalls = 0
  /\ ExtractIdle
  /\ RouteIdle
  /\ HandlerIdle
  /\ AnalyzeIdle
  /\ ServiceIdle
  /\ ConcurrentIdle

CallAddSchema ==
  /\ docCalls < MaxCalls
  /\ \E name \in DocNames, schema \in DocSchemas :
       /\ doc' = AddSchema(doc, name, schema)
       /\ docCall' = [fn |-> "AddSchema", name |-> name]
  /\ docCalls' = docCalls + 1
  /\ UNCHANGED <<extractVars, routeVars, handlerVars, analyzeVars,
                 serviceVars, concVars>>

CallAddPath ==
  /\ docCalls < MaxCalls
  /\ \E path \in DocPaths, method \in DocMethods, operation \in DocOperations :
       /\ doc' = AddPath(doc, path, method, operation)
       /\ docCall' = [fn |-> "AddPath", path |-> path, method |-> method]
  /\ docCalls' = docCalls + 1
  /\ UNCHANGED <<extractVars, routeVars, handlerVars, analyzeVars,
                 serviceVars, concVars>>

NextDocument == CallAddSchema \/ CallAddPath

SpecDocument == InitDocument /\ [][NextDocument]_vars

(***************************************************************************)
(* Specification SpecConcurrent: two webhook deliveries, each handled by   *)
(* processRepository in its own goroutine (internal/webhook/handler.go     *)
(* 97-100, 146-194).  CloneOrPull (part_006 145-161) brings the working    *)
(* copy  workDir/<repository name>  to the remote head; Analyze then walks *)
(* that directory twice.  A walk is taken as one step: the interleavings   *)
(* in which the working copy changes during a walk are left out.           *)
(***************************************************************************)
Deliveries == {1, 2}
RepoNames == {"a", "b"}
\* the trees a remote head can hold
Commits == {<<File_handler>>, <<File_modelT>>, <<File_handler, File_modelT>>}

InitConcurrent ==
  /\ upstream = [r \in RepoNames |-> << >>]
  /\ workDir = [r \in RepoNames |-> << >>]
  /\ gRepo = EmptyMap
  /\ gPc = [d \in Deliveries |-> "idle"]
  /\ gPulled = EmptyMap
  /\ gLocal = EmptyMap
  /\ gResult = EmptyMap
  /\ ExtractIdle
  /\ RouteIdle
  /\ HandlerIdle
  /\ AnalyzeIdle
  /\ DocumentIdle
  /\ ServiceIdle

\* a push moves the remote head of a repository and its webhook is
\* delivered: the handler starts processRepository in a new goroutine
\* (handler.go 97-100)
Deliver(d) ==
  /\ gPc[d] = "idle"
  /\ \E r \in RepoNames, c \in Commits :
       /\ upstream' = [upstream EXCEPT ![r] = c]
       /\ gRepo' = Put(gRepo, d, r)
  /\ gPc' = [gPc EXCEPT ![d] = "pull"]
  /\ UNCHANGED <<workDir, gPulled, gLocal, gResult, extractVars, routeVars,
                 handlerVars, analyzeVars, docVars, serviceVars>>

\* handler.go 150-155: CloneOrPull brings the working copy to the remote head
CloneOrPull(d) ==
  /\ gPc[d] = "pull"
  /\ workDir' = [workDir EXCEPT ![gRepo[d]] = upstream[gRepo[d]]]
  /\ gPulled' = Put(gPulled, d, upstream[gRepo[d]])
  /\ gPc' = [gPc EXCEPT ![d] = "walk1"]
  /\ UNCHANGED <<upstream, gRepo, gLocal, gResult, extractVars, routeVars,
                 handlerVars, analyzeVars, docVars, serviceVars>>

\* gin_parser.go 28-91: new analyzers and the first walk of the working copy
FirstWalkOf(d) ==
  /\ gPc[d] = "walk1"
  /\ gLocal' = Put(gLocal, d, FirstWalk(workDir[gRepo[d]], 1, NewAnalyzers))
  /\ gPc' = [gPc EXCEPT ![d] = "expand"]
  /\ UNCHANGED <<upstream, workDir, gRepo, gPulled, gResult, extractVars,
                 routeVars, handlerVars, analyzeVars, docVars, serviceVars>>

\* gin_parser.go 94-118: the expansion and the component schemas
ExpandOf(d) ==
  /\ gPc[d] = "expand"
  /\ \E order \in IterationOrders(DOMAIN gLocal[d].embeddedFields) :
       LET ex == ExpandOwners(order, 1, gLocal[d].embeddedFields,
                              [structs |-> gLocal[d].structs,
                               heap |-> gLocal[d].heap])
       IN gLocal' =
            [gLocal EXCEPT
               ![d] = [structs |-> ex.structs,
                       heap |-> Append(ex.heap, ApiResponseProperties),
                       spec |-> AddAllSchemas(NewSpec, ex.structs, ex.heap),
                       functions |-> gLocal[d].functions,
                       handlerInfoMap |-> gLocal[d].handlerInfoMap]]
  /\ gPc' = [gPc EXCEPT ![d] = "walk2"]
  /\ UNCHANGED <<upstream, workDir, gRepo, gPulled, gResult, extractVars,
                 routeVars, handlerVars, analyzeVars, docVars, serviceVars>>

\* gin_parser.go 121-169: the second walk of the working copy and the return
SecondWalkOf(d) ==
  /\ gPc[d] = "walk2"
  /\ gResult' =
       Put(gResult, d,
           [spec |-> <<Document(SecondWalk(workDir[gRepo[d]], 1,
                                           gLocal[d].handlerInfoMap,
                                           gLocal[d].functions,
                                           gLocal[d].spec),
                                gLocal[d].heap)>>,
            err |-> WalkError])
  /\ gPc' = [gPc EXCEPT ![d] = "done"]
  /\ UNCHANGED <<upstream, workDir, gRepo, gPulled, gLocal, extractVars,
                 routeVars, handlerVars, analyzeVars, docVars, serviceVars>>

NextConcurrent ==
  \E d \in Deliveries :
    \/ Deliver(d)
    \/ CloneOrPull(d)
    \/ FirstWalkOf(d)
    \/ ExpandOf(d)
    \/ SecondWalkOf(d)

SpecConcurrent == InitConcurrent /\ [][NextConcurrent]_vars

\* the declarations C8 is about: every field named, exported, untagged and of
\* type string, int or bool
PlainDecl(decl) ==
  \A i \in 1..Len(decl.fields) :
    LET f == decl.fields[i]
    IN /\ Len(f.names) > 0
       /\ \A k \in 1..Len(f.names) : isExported(f.names[k])
       /\ f.tag = NoTag
       /\ f.type \in BasicTypeExprs

\* C8: once a declaration whose fields are all exported, untagged and of type
\* string/int/bool is extracted, every declared field name, including every
\* name of a multi-name field, is, camelCased, a key of the schema's
\* properties and an element of its required list.
C8_EveryNameInPropertiesAndRequired ==
  (ExtractDone /\ PlainDecl(xDecl)) =>
    \A i \in 1..Len(xDecl.fields) :
      \A k \in 1..Len(xDecl.fields[i].names) :
        LET p == toLowerCamelCase(xDecl.fields[i].names[k])
        IN p \in DOMAIN xProps /\ p \in Range(xRequired)

\* the same for the first name of every field: what the loop does process
C8_FirstNameInPropertiesAndRequired ==
  (ExtractDone /\ PlainDecl(xDecl)) =>
    \A i \in 1..Len(xDecl.fields) :
      LET p == toLowerCamelCase(xDecl.fields[i].names[1])
      IN p \in DOMAIN xProps /\ p \in Range(xRequired)

\* field f is processed by the loop: named, its first name exported, and
\* not excluded by json:"-"
Processed(f) ==
  /\ Len(f.names) > 0
  /\ f.names[1][1] \in UpperChars
  /\ ~(~f.tag.nil /\ f.tag.json # << >> /\ f.tag.json[1] = <<"-">>)

\* field f carries the omitempty option in its json tag
MarkedOmitEmpty(f) ==
  /\ ~f.tag.nil
  /\ f.tag.json # << >>
  /\ \E i \in 2..Len(f.tag.json) : f.tag.json[i] = "omitempty"

\* field f carries the rule required in its binding tag
BindingRequired(f) ==
  ~f.tag.nil /\ \E i \in 1..Len(f.tag.binding) : f.tag.binding[i] = "required"

\* the property name of a processed field: the name of its json tag, else
\* its first name in lower camel case
PropertyName(f) ==
  IF ~f.tag.nil /\ f.tag.json # << >> /\ f.tag.json[1] # << >>
    THEN f.tag.json[1]
    ELSE toLowerCamelCase(f.names[1])

\* the property names of the processed fields not marked omitempty, in the
\* order of the declaration
RECURSIVE NamesNotOmitEmpty(_, _)
NamesNotOmitEmpty(fields, i) ==
  IF i > Len(fields) THEN << >>
  ELSE (IF Processed(fields[i]) /\ ~MarkedOmitEmpty(fields[i])
          THEN <<PropertyName(fields[i])>> ELSE << >>)
         \o NamesNotOmitEmpty(fields, i + 1)

\* C25: for an extracted struct, before expansion, the required list holds
\* exactly the property names of the processed fields that are not marked
\* omitempty; a binding:"required" rule adds nothing to it, also on an
\* omitempty field.
C25_RequiredIsNotOmitEmpty ==
  ExtractDone => xRequired = NamesNotOmitEmpty(xDecl.fields, 1)

\* a processed field marked omitempty and binding:"required" is a property
\* and not required, next to a required field
C25_Witness ==
  /\ ExtractDone
  /\ xRequired # << >>
  /\ \E i \in 1..Len(xDecl.fields) :
       /\ Processed(xDecl.fields[i])
       /\ MarkedOmitEmpty(xDecl.fields[i])
       /\ BindingRequired(xDecl.fields[i])
       /\ PropertyName(xDecl.fields[i]) \in DOMAIN xProps
       /\ PropertyName(xDecl.fields[i]) \notin Range(xRequired)

(***************************************************************************)
(* Route extraction: what the claims say, stated on the walked body        *)
(***************************************************************************)
\* the text of an interpreted string literal: what stands between its quotes
LitText(lit) == SubSeq(lit.value, 2, Len(lit.value) - 1)

\* node n is a route registration: recv.VERB("path", handler, ...)
IsRouteCall(n) ==
  /\ n.kind = "CallExpr"
  /\ n.fun.kind = "SelectorExpr"
  /\ n.fun.sel \in validMethods
  /\ Len(n.args) >= 2
  /\ n.args[1].kind = "BasicLit"
  /\ n.args[1].litKind = "STRING"

\* the indices of the route registrations among the first upto nodes
RECURSIVE RouteCallIdxs(_, _)
RouteCallIdxs(nodes, upto) ==
  IF upto = 0 THEN << >>
  ELSE IF IsRouteCall(nodes[upto])
    THEN Append(RouteCallIdxs(nodes, upto - 1), upto)
    ELSE RouteCallIdxs(nodes, upto - 1)

\* node n is  v := recv.Group("p")
IsGroupBinding(n, v) ==
  /\ n.kind = "AssignStmt"
  /\ Len(n.lhs) = 1 /\ Len(n.rhs) = 1
  /\ n.lhs[1] = Ident(v)
  /\ n.rhs[1].kind = "CallExpr"
  /\ n.rhs[1].fun.kind = "SelectorExpr"
  /\ n.rhs[1].fun.sel = "Group"
  /\ Len(n.rhs[1].args) >= 1
  /\ n.rhs[1].args[1].kind = "BasicLit"

\* the last group binding of v before node at, 0 if there is none
LastBinding(nodes, at, v) ==
  LET js == {j \in 1..(at - 1) : IsGroupBinding(nodes[j], v)}
  IN IF js = {} THEN 0 ELSE CHOOSE j \in js : \A k \in js : k <= j

\* p1 + ... + pk for the chain of group assignments that ends in v at node at
RECURSIVE ChainPrefix(_, _, _)
ChainPrefix(nodes, at, v) ==
  LET j == LastBinding(nodes, at, v)
  IN IF j = 0 THEN << >>
     ELSE LET call == nodes[j].rhs[1]
              parent == IF call.fun.x.kind = "Ident"
                          THEN ChainPrefix(nodes, j, call.fun.x.name)
                          ELSE << >>
          IN parent \o LitText(call.args[1])

\* the k-th recorded route comes from node RouteCallIdxs(rBody, rIdx)[k]
RouteNode(k) == rBody[RouteCallIdxs(rBody, rIdx)[k]]

\* the k-th route was registered on a variable bound by a chain of groups
OnGroupChain(k) ==
  /\ RouteNode(k).fun.x.kind = "Ident"
  /\ LastBinding(rBody, RouteCallIdxs(rBody, rIdx)[k],
                 RouteNode(k).fun.x.name) > 0

ChainPath(k) ==
  ChainPrefix(rBody, RouteCallIdxs(rBody, rIdx)[k], RouteNode(k).fun.x.name)
    \o LitText(RouteNode(k).args[1])

\* C3 as stated: a route registered on the last variable of a chain of group
\* assignments has the verb as method and, as path, the concatenation
\* p1+...+pk+p with every :name rewritten to {name}.
C3_ChainPathIsConcatenation ==
  \A k \in 1..Len(routes) :
    OnGroupChain(k) =>
      /\ routes[k].method = RouteNode(k).fun.sel
      /\ routes[k].path = convertGinPathToOpenAPI(ChainPath(k))

\* C3 amended: the same, except that an empty concatenation gives the path "/".
C3_ChainPathIsConcatenationOrSlash ==
  \A k \in 1..Len(routes) :
    OnGroupChain(k) =>
      /\ routes[k].method = RouteNode(k).fun.sel
      /\ routes[k].path = IF ChainPath(k) = << >> THEN <<"/">>
                          ELSE convertGinPathToOpenAPI(ChainPath(k))

\* the nested-groups example is walked: GET /api/v1/products/{id}, parameter id
C3_Witness ==
  /\ rBody = Nodes(NestedGroupsExample, 1)
  /\ rIdx = Len(rBody)
  /\ Len(routes) = 1
  /\ OnGroupChain(1)
  /\ routes[1].method = "GET"
  /\ routes[1].path = P_apiV1 \o P_products \o <<"/", "{", "i", "d", "}">>
  /\ ToOperation(routes[1]).parameters = <<PathParameter(<<"i", "d">>)>>

\* the k-th route was registered on a receiver with no group prefix bound
\* anywhere in the function
OnUnboundReceiver(k) ==
  \/ RouteNode(k).fun.x.kind # "Ident"
  \/ /\ RouteNode(k).fun.x.kind = "Ident"
     /\ LastBinding(rBody, Len(rBody) + 1, RouteNode(k).fun.x.name) = 0

MethodsAndPaths == [k \in 1..Len(routes) |-> <<routes[k].method, routes[k].path>>]

GinSamplePairs ==
  <<<<"GET", P_users>>,
    <<"GET", P_users \o <<"/", "{", "i", "d", "}">>>>,
    <<"POST", P_users>>,
    <<"PUT", P_users \o <<"/", "{", "i", "d", "}">>>>,
    <<"DELETE", P_users \o <<"/", "{", "i", "d", "}">>>>,
    <<"GET", P_products>>,
    <<"GET", P_products \o <<"/", "{", "i", "d", "}">>>>>>

GinSampleWalked == rBody = Nodes(GinSampleMain, 1) /\ rIdx = Len(rBody)

PlaceholderStarts(p) ==
  {i \in 1..Len(p) :
     /\ p[i] = "{"
     /\ \E j \in (i + 2)..Len(p) :
          /\ p[j] = "}"
          /\ \A k \in (i + 1)..(j - 1) : p[k] \in NameChars}

\* the name of the placeholder that starts at i
PlaceholderName(p, i) ==
  LET j == CHOOSE j \in (i + 2)..Len(p) :
             /\ p[j] = "}"
             /\ \A k \in (i + 1)..(j - 1) : p[k] \in NameChars
  IN SubSeq(p, i + 1, j - 1)

\* the n-th placeholder start of p
NthStart(p, n) ==
  CHOOSE i \in PlaceholderStarts(p) :
    Cardinality({s \in PlaceholderStarts(p) : s < i}) = n - 1

\* one path parameter per placeholder of p, in the order of the path
ParametersOfPlaceholders(p) ==
  [n \in 1..Cardinality(PlaceholderStarts(p)) |->
     [name |-> PlaceholderName(p, NthStart(p, n)), in |-> "path",
      required |-> TRUE, schema |-> [EmptySchema EXCEPT !.type = "string"]]]

\* C21 as stated: the operation of every recorded route carries one
\* parameter (in=path, required, string schema) per bracketed placeholder of
\* its full document path, whether the placeholder comes from the route's
\* own literal or from a group prefix, and none if the path has none.
C21_OneParameterPerPlaceholder ==
  \A k \in 1..Len(routes) :
    ToOperation(routes[k]).parameters = ParametersOfPlaceholders(routes[k].path)

\* what the code does: the parameters are those of the full path when the
\* route's own literal holds a colon, and none otherwise
C21_ParametersWhenLiteralHasColon ==
  \A k \in 1..Len(routes) :
    ToOperation(routes[k]).parameters =
      IF ":" \in Range(LitText(RouteNode(k).args[1]))
        THEN ParametersOfPlaceholders(routes[k].path)
        ELSE << >>

\* the prefix bound to the receiver of the k-th route of the function being
\* walked when the walk reached its call, by the bindings of that function
LocalPrefix(k) ==
  IF RouteNode(k).fun.x.kind = "Ident"
    THEN ChainPrefix(rBody, RouteCallIdxs(rBody, rIdx)[k],
                     RouteNode(k).fun.x.name)
    ELSE << >>

\* C22: group prefixes are local to one function body: the prefix of a route
\* is the one bound to its receiver, by the bindings of its own function
\* alone, when the walk reaches the route call (empty if none is bound yet),
\* whatever the functions walked before have bound.
C22_GroupPrefixesAreLocal ==
  \A k \in 1..Len(routes) :
    /\ routes[k].groupPrefix = LocalPrefix(k)
    /\ routes[k].path =
         IF LocalPrefix(k) \o LitText(RouteNode(k).args[1]) = << >>
           THEN <<"/">>
           ELSE convertGinPathToOpenAPI(
                  LocalPrefix(k) \o LitText(RouteNode(k).args[1]))

\* the first function has bound g to /a; the second registers /e on g
\* without binding it, and its route is /e
C22_Witness ==
  /\ rFn = 2
  /\ \E j \in 1..Len(rFile[1]) : IsGroupBinding(rFile[1][j], "g")
  /\ Len(routes) = 1
  /\ RouteNode(1).fun.x = Ident("g")
  /\ LocalPrefix(1) = << >>
  /\ routes[1].path = P_e

(***************************************************************************)
(* Claims about handler analysis (SpecHandler)                             *)
(***************************************************************************)
\* node n is a call of a request-binding method
IsBindingCall(n) ==
  /\ n.kind = "CallExpr"
  /\ n.fun.kind = "SelectorExpr"
  /\ n.fun.sel \in BindingMethods
  /\ Len(n.args) > 0

\* node n is a call that carries a response argument
IsResponseCall(n) ==
  /\ n.kind = "CallExpr"
  /\ n.fun.kind = "SelectorExpr"
  /\ n.fun.sel \in WrapperMethods \cup {"JSON"}
  /\ Len(n.args) > 1

\* node n is  var v T  with T a type name, possibly package-qualified
IsVarDecl(n, v) ==
  /\ n.kind = "ValueSpec"
  /\ v \in Range(n.names)
  /\ n.type.kind \in {"Ident", "SelectorExpr"}

\* T without its package qualifier
BareTypeName(t) == IF t.kind = "SelectorExpr" THEN <<t.sel>> ELSE <<t.name>>

\* node n declares v or has v on the left of an assignment
Writes(n, v) ==
  \/ n.kind = "ValueSpec" /\ v \in Range(n.names)
  \/ n.kind = "AssignStmt" /\ Ident(v) \in Range(n.lhs)

BindsReq(n) == IsBindingCall(n) /\ n.args[1] = UnaryExpr(Ident("req"))

\* the body's first request-binding call has &req as its first argument
FirstBindingBindsReq ==
  \E j \in 1..Len(hBody) :
    /\ BindsReq(hBody[j])
    /\ \A k \in 1..(j - 1) : ~IsBindingCall(hBody[k])

\* C4 as stated: a handler that declares  var req T  (T possibly
\* package-qualified) and calls a request-binding method with &req as first
\* argument ends with RequestType T, package qualifier stripped.
C4_RequestTypeIsDeclaredType ==
  \A i, j \in 1..Len(hBody) :
    (/\ HandlerAnalysed
     /\ IsVarDecl(hBody[i], "req")
     /\ BindsReq(hBody[j]))
    => hInfo.requestType = BareTypeName(hBody[i].type)

\* C4 amended: a handler that declares  var req T  (T a type name, possibly
\* package-qualified), has no other declaration of or assignment to req, and
\* whose first request-binding call in traversal order has &req as first
\* argument, ends with RequestType T, package qualifier stripped.
C4_RequestTypeIsDeclaredTypeOfFirstBinding ==
  \A i \in 1..Len(hBody) :
    (/\ HandlerAnalysed
     /\ IsVarDecl(hBody[i], "req")
     /\ \A k \in 1..Len(hBody) : k # i => ~Writes(hBody[k], "req")
     /\ FirstBindingBindsReq)
    => hInfo.requestType = BareTypeName(hBody[i].type)

\* a qualified  var req model.T  bound first, with a later binding call on
\* another variable, has given RequestType "T"
C4_Witness ==
  /\ HandlerAnalysed
  /\ FirstBindingBindsReq
  /\ \E i \in 1..Len(hBody) :
       /\ IsVarDecl(hBody[i], "req")
       /\ hBody[i].type.kind = "SelectorExpr"
       /\ \A k \in 1..Len(hBody) : k # i => ~Writes(hBody[k], "req")
  /\ \E j \in 1..Len(hBody) : IsBindingCall(hBody[j]) /\ ~BindsReq(hBody[j])
  /\ hInfo.requestType = <<"T">>

\* C5 as stated: a handler that calls c.JSON(status, v), v a bare local
\* identifier previously assigned from a composite literal of type T, ends
\* with ResponseType T, not the identifier's own name.  Stated for the
\* handlers whose only response call is that one.
C5_JSONIdentResolvesToLiteralType ==
  \A i, j \in 1..Len(hBody) :
    (/\ HandlerAnalysed
     /\ i < j
     /\ hBody[i].kind = "AssignStmt"
     /\ Len(hBody[i].lhs) = 1 /\ Len(hBody[i].rhs) = 1
     /\ hBody[i].lhs[1].kind = "Ident"
     /\ hBody[i].rhs[1].kind = "CompositeLit"
     /\ hBody[i].rhs[1].type.kind = "Ident"
     /\ hBody[j].kind = "CallExpr"
     /\ hBody[j].fun.kind = "SelectorExpr"
     /\ hBody[j].fun.sel = "JSON"
     /\ Len(hBody[j].args) = 2
     /\ hBody[j].args[2] = hBody[i].lhs[1]
     /\ \A k \in 1..Len(hBody) : IsResponseCall(hBody[k]) => k = j
     /\ \A k \in 1..Len(hBody) :
          k # i => ~Writes(hBody[k], hBody[i].lhs[1].name))
    => hInfo.responseType = <<hBody[i].rhs[1].type.name>>

\* the handler's only response call is JSON with a map composite literal
OnlyResponseIsMapLiteral ==
  /\ \E j \in 1..Len(hBody) : IsResponseCall(hBody[j])
  /\ \A j \in 1..Len(hBody) :
       IsResponseCall(hBody[j]) =>
         /\ hBody[j].fun.sel = "JSON"
         /\ hBody[j].args[2].kind = "CompositeLit"
         /\ hBody[j].args[2].type.kind = "MapType"

\* C6 as stated: a handler whose only response argument is a map composite
\* literal ends with an empty ResponseType, and the operation of its route
\* has the generic object {type: object} as data payload of the success
\* response.
C6_MapLiteralIsUnresolved ==
  (HandlerAnalysed /\ OnlyResponseIsMapLiteral) =>
    /\ hInfo.responseType = << >>
    /\ HandlerLinked => DataPayload(hOp) = TypeSchema("object")

\* C6 amended: a handler whose only response argument is a map composite
\* literal ends with ResponseType "map[string]interface{}", and the
\* operation of its route has, unless the service-call inference of the
\* linking step yields a type for the handler, the data payload
\* {type: object, additionalProperties: {type: object}}.
C6_MapLiteralIsGenericMap ==
  (HandlerAnalysed /\ OnlyResponseIsMapLiteral) =>
    /\ hInfo.responseType = <<"map[", "string", "]", "interface{}">>
    /\ (/\ HandlerLinked
        /\ inferResponseTypeFromServiceCalls(hInfo, hService) = << >>)
       => DataPayload(hOp) =
            [EmptySchema EXCEPT !.type = "object",
                                !.addl = <<[EmptySchema EXCEPT !.type = "object"]>>]

\* a linked handler whose only response is a map literal, with a service
\* call assigned to data that does not resolve
C6_Witness ==
  /\ HandlerLinked
  /\ OnlyResponseIsMapLiteral
  /\ hInfo.serviceCalls # << >>
  /\ hService # EmptyMap
  /\ inferResponseTypeFromServiceCalls(hInfo, hService) = << >>
  /\ DataPayload(hOp).addl # << >>

\* C15 as stated: every query parameter name recorded for a handler appears
\* as an in=query parameter in the operation of a route bound to the
\* handler, alongside the path parameters.
C15_QueryParamsInOperation ==
  HandlerLinked =>
    /\ \A q \in Range(hInfo.queryParams) :
         \E k \in 1..Len(hOp.parameters) :
           hOp.parameters[k].name = q /\ hOp.parameters[k].in = "query"
    /\ \A k \in 1..Len(extractPathParameters(hRoute.path)) :
         extractPathParameters(hRoute.path)[k] \in Range(hOp.parameters)

\* the response type is the marker ident.Name + ".service" that the wrapper
\* case leaves for the linking step (part_001 199-201)
IsDeferred(t) ==
  Len(t) = 3 /\ t[2] = "." /\ t[3] = "service"

\* C16 as stated: the linking step replaces the response type by a result of
\* the service-call inference only when the handler's recorded response type
\* carries the deferred marker; a response type resolved concretely is
\* copied onto the route unchanged, even if the handler also assigned a
\* service call to the variable data.
C16_InferenceOnlyWhenDeferred ==
  (HandlerLinked /\ ~IsDeferred(hInfo.responseType)) =>
    hRoute.responseType = hInfo.responseType

\* the service functions the handler's calls bound to data name
DataFunctions ==
  {<<<<hInfo.serviceCalls[k].package>>, hInfo.serviceCalls[k].function>> :
     k \in {j \in 1..Len(hInfo.serviceCalls) :
              hInfo.serviceCalls[j].variable = "data"}}

\* C17: when a deferred response is resolved through a service function
\* (the one function the handler's calls bound to data name, known to the
\* service analyzer), the route's response type is the function's DataType
\* unless that is empty or "map[string]interface{}"; otherwise it is the
\* function's ReturnType unless that is empty or "interface{}".
C17_DataTypeThenReturnType ==
  \A key \in DOMAIN hService :
    (/\ HandlerLinked
     /\ IsDeferred(hInfo.responseType)
     /\ DataFunctions = {key})
    => LET f == hService[key]
           dataOk == f.dataType # << >> /\ f.dataType # MapStringInterface
           returnOk == f.returnType # << >> /\ f.returnType # <<"interface{}">>
       IN /\ dataOk => hRoute.responseType = f.dataType
          /\ (~dataOk /\ returnOk) => hRoute.responseType = f.returnType

\* a linked handler with a deferred response whose service function has the
\* generic map as DataType and Item as ReturnType: the route has Item
C17_Witness ==
  /\ HandlerLinked
  /\ IsDeferred(hInfo.responseType)
  /\ DataFunctions = {<<<<"svc">>, "Get">>}
  /\ DataFunctions \subseteq DOMAIN hService
  /\ hService[<<<<"svc">>, "Get">>].dataType = MapStringInterface
  /\ hService[<<<<"svc">>, "Get">>].returnType = <<"Item">>
  /\ hRoute.responseType = <<"Item">>
  /\ DataPayload(hOp) = RefSchema(<<"Item">>)

\* C18 as stated: when the response is deferred and the service-call
\* inference resolves nothing (neither type resolves, or the function is
\* unknown), the route's response type is empty and the data payload of the
\* success response is the generic object, not a schema reference.
C18_UnresolvedDeferredIsGenericObject ==
  (/\ HandlerLinked
   /\ IsDeferred(hInfo.responseType)
   /\ inferResponseTypeFromServiceCalls(hInfo, hService) = << >>)
  => /\ hRoute.responseType = << >>
     /\ DataPayload(hOp) = TypeSchema("object")

\* node n is a JSON call that carries a response argument
IsJSONCall(n) ==
  /\ n.kind = "CallExpr"
  /\ n.fun.kind = "SelectorExpr"
  /\ n.fun.sel = "JSON"
  /\ Len(n.args) > 1

\* C23: within one handler body resolution is first-wins in traversal
\* order: a request-binding call visited when RequestType is non-empty
\* leaves it as it is, and a JSON call visited when ResponseType is non-empty
\* leaves it as it is.
C23_FirstResolutionWins ==
  [][(hPass = 2 /\ hPass' = 2 /\ hIdx' = hIdx + 1) =>
       /\ (IsBindingCall(hBody[hIdx + 1]) /\ hInfo.requestType # << >>) =>
            hInfo'.requestType = hInfo.requestType
       /\ (IsJSONCall(hBody[hIdx + 1]) /\ hInfo.responseType # << >>) =>
            hInfo'.responseType = hInfo.responseType]_vars

\* a binding call that resolves another type has just been visited with
\* RequestType already set, and RequestType is not its type
C23_Witness ==
  /\ hPass = 2
  /\ hIdx > 1
  /\ IsBindingCall(hBody[hIdx])
  /\ BindRequestType(hBody[hIdx], varTypes) # << >>
  /\ hInfo.requestType # << >>
  /\ hInfo.requestType # BindRequestType(hBody[hIdx], varTypes)

\* the same for a JSON call and ResponseType
C23_WitnessJSON ==
  /\ hPass = 2
  /\ hIdx > 1
  /\ IsJSONCall(hBody[hIdx])
  /\ JSONResponseType(hBody[hIdx], varTypes) # << >>
  /\ hInfo.responseType # << >>
  /\ hInfo.responseType # JSONResponseType(hBody[hIdx], varTypes)

\* C20: a generated operation has a request body if and only if the route's
\* method is POST, PUT or PATCH; the body is marked required and its schema
\* is a $ref to the route's request type if that is non-empty, otherwise
\* the generic object.
C20_RequestBodyForBodyMethods ==
  HandlerLinked =>
    /\ hOp.requestBody # << >> <=> hRoute.method \in {"POST", "PUT", "PATCH"}
    /\ hOp.requestBody # << >> =>
         /\ Len(hOp.requestBody) = 1
         /\ hOp.requestBody[1].required
         /\ hOp.requestBody[1].schema =
              IF hRoute.requestType # << >>
                THEN [EmptySchema EXCEPT
                        !.ref = <<"#/components/schemas/">>
                                  \o hRoute.requestType]
                ELSE [EmptySchema EXCEPT !.type = "object"]

\* a PATCH route whose handler binds a request type, and its operation
C20_Witness ==
  /\ HandlerLinked
  /\ hRoute.method = "PATCH"
  /\ hRoute.requestType # << >>
  /\ hOp.requestBody # << >>

\* a PUT route whose handler binds nothing has the generic object
C20_WitnessGeneric ==
  /\ HandlerLinked
  /\ hRoute.method = "PUT"
  /\ hRoute.requestType = << >>
  /\ hOp.requestBody # << >>

(***************************************************************************)
(* Claims about the service analyzer (SpecService)                         *)
(***************************************************************************)
\* the candidate types of the body: for every assignment to and every typed
\* declaration of data whose type is extracted, that type, in traversal order
RECURSIVE AssignCandidates(_, _)
AssignCandidates(n, i) ==
  IF i > Len(n.lhs) THEN << >>
  ELSE (IF /\ n.lhs[i] = Ident("data")
           /\ i <= Len(n.rhs)
           /\ extractTypeFromAssignment(n.rhs[i]) # << >>
          THEN <<extractTypeFromAssignment(n.rhs[i])>> ELSE << >>)
         \o AssignCandidates(n, i + 1)

DeclCandidates(n) ==
  IF /\ "data" \in Range(n.names)
     /\ n.type # NoExpr
     /\ extractDetailedTypeName(n.type) # << >>
    THEN <<extractDetailedTypeName(n.type)>> ELSE << >>

RECURSIVE Candidates(_, _)
Candidates(nodes, i) ==
  IF i > Len(nodes) THEN << >>
  ELSE (CASE nodes[i].kind = "AssignStmt" -> AssignCandidates(nodes[i], 1)
          [] nodes[i].kind = "ValueSpec" -> DeclCandidates(nodes[i])
          [] OTHER -> << >>)
         \o Candidates(nodes, i + 1)

\* the generic-object types
IsGeneric(t) == t \in {MapStringInterface, <<"interface{}">>}

ConcreteCandidates(nodes) ==
  LET Concrete(t) == ~IsGeneric(t) IN SelectSeq(Candidates(nodes, 1), Concrete)

\* C19 as stated: when a service function body holds candidate assignments
\* to or declarations of data, the inferred data type is the first concrete
\* (non-generic) candidate in traversal order; a generic candidate is
\* returned only if the body holds no concrete candidate.
C19_FirstConcreteCandidateWins ==
  (sReturn # << >> /\ Candidates(sBody, 1) # << >>) =>
    IF ConcreteCandidates(sBody) # << >>
      THEN sReturn[1] = ConcreteCandidates(sBody)[1]
      ELSE sReturn[1] \in Range(Candidates(sBody, 1))

\* what the code returns: the last concrete candidate in traversal order,
\* and the last candidate if none is concrete
C19_LastConcreteCandidateWins ==
  (sReturn # << >> /\ Candidates(sBody, 1) # << >>) =>
    IF ConcreteCandidates(sBody) # << >>
      THEN sReturn[1] = LastOf(ConcreteCandidates(sBody))
      ELSE sReturn[1] = LastOf(Candidates(sBody, 1))

(***************************************************************************)
(* Claims about Analyze (SpecAnalyze)                                      *)
(***************************************************************************)
\* the first walk analyses entry e
Analysed(e) == ~e.err /\ ~Skips(e) /\ e.parses

\* the entries of the tree that declare a struct called name
Declaring(name) ==
  {i \in 1..Len(tree.entries) :
     \E k \in 1..Len(tree.entries[i].structs) :
       tree.entries[i].structs[k].name = name}

\* every field of decl is named and of a basic type
OnlyBasicFields(decl) ==
  \A k \in 1..Len(decl.fields) :
    /\ Len(decl.fields[k].names) > 0
    /\ decl.fields[k].type \in BasicTypeExprs

\* the schema extracted from decl alone, as a caller reads it
ExtractionOf(decl) ==
  LET acc == extractStructSchemaWithName(decl, << >>, EmptyMap)
  IN [Unfold(TypeSchema("object"), << >>, 0) EXCEPT
        !.props = [k \in DOMAIN acc.props |-> Unfold(acc.props[k], << >>, 0)],
        !.required = acc.required]

\* C1 as stated: if struct type T is declared in a handler-layer file and in
\* a model-layer file with different fields, the schema stored for T at the
\* end of the run is the model-layer extraction, whichever file is visited
\* first.  Stated for model-layer declarations with basic-typed fields only.
C1_ModelLayerExtractionWins ==
  \A i, j \in 1..Len(tree.entries) :
    \A di \in Range(tree.entries[i].structs),
       dj \in Range(tree.entries[j].structs) :
      (/\ AnalyzeDone
       /\ Analysed(tree.entries[i])
       /\ Analysed(tree.entries[j])
       /\ calculatePriority(extractPackageNameFromPath(tree.entries[i])) = 10
       /\ calculatePriority(extractPackageNameFromPath(tree.entries[j])) = 100
       /\ di.name = dj.name
       /\ di.fields # dj.fields
       /\ Declaring(di.name) = {i, j}
       /\ OnlyBasicFields(dj))
      => result.spec[1].schemas[dj.name] = ExtractionOf(dj)

\* C2 as stated: running Analyze twice over the same unchanged tree yields
\* identical Documents: the same paths and operations, the same component
\* schemas with the same properties and required lists.
C2_SecondRunSameDocument ==
  (AnalyzeDone /\ run = 2) => result = firstResult

\* C7: when the expansion pass runs with owner A holding an anonymous field
\* of type B, both extracted, and B has a required property x, then after
\* the pass A has property x and x is in A's required list; if A had its own
\* x, that schema is kept.
C7_EmbeddedRequiredPropertyReachesOwner ==
  [][(pc = "expand" /\ pc' = "schemas") =>
       \A a \in DOMAIN embeddedFields :
         \A b \in Range(embeddedFields[a]) :
           (a \in DOMAIN structs /\ b \in DOMAIN structs) =>
             \A x \in DOMAIN heap[structs[b].props] :
               x \in Range(structs[b].required) =>
                 /\ x \in DOMAIN heap'[structs'[a].props]
                 /\ x \in Range(structs'[a].required)
                 /\ x \in DOMAIN heap[structs[a].props] =>
                      heap'[structs'[a].props][x] = heap[structs[a].props][x]]_vars

\* the expansion has run on an owner that declares an x of its own and embeds
\* a type with required properties x and y: the owner kept its x and got y
C7_Witness ==
  /\ pc = "schemas"
  /\ \E a \in DOMAIN embeddedFields :
       \E b \in Range(embeddedFields[a]) :
         /\ a \in DOMAIN structs
         /\ b \in DOMAIN structs
         /\ a # b
         /\ \E x, y \in DOMAIN heap[structs[b].props] :
              /\ x \in Range(structs[b].required)
              /\ y \in Range(structs[b].required)
              /\ x \in DOMAIN heap[structs[a].props]
              /\ y \in DOMAIN heap[structs[a].props]
              /\ heap[structs[a].props][x] # heap[structs[b].props][x]
              /\ heap[structs[a].props][y] = heap[structs[b].props][y]
              /\ x \in Range(structs[a].required)
              /\ y \in Range(structs[a].required)

\* the Documents Analyze can return on a tree with entries es, one for every
\* order in which the expansion can visit the owners
Documents(es) ==
  LET st == FirstWalk(es, 1, NewAnalyzers)
  IN {LET ex == ExpandOwners(order, 1, st.embeddedFields,
                             [structs |-> st.structs, heap |-> st.heap])
          s1 == AddAllSchemas(NewSpec, ex.structs, ex.heap)
          s2 == SecondWalk(es, 1, st.handlerInfoMap, st.functions, s1)
      IN Document(s2, Append(ex.heap, ApiResponseProperties)) :
        order \in IterationOrders(DOMAIN st.embeddedFields)}

\* entry e is a file the walks hand to the parser and the parser rejects
FailsToParse(e) == ~e.err /\ ~Skips(e) /\ ~e.parses

\* the entries without the files that fail to parse
WithoutFailing(es) ==
  LET Keep(e) == ~FailsToParse(e) IN SelectSeq(es, Keep)

\* C11: a file that fails to parse is skipped in both walks: on a tree that
\* holds such files Analyze returns, with no error, a Document that it can
\* return on the tree without them, so the failing files contribute nothing
\* and every other file contributes what it would in their absence.
C11_UnparsableFileIsSkipped ==
  (AnalyzeDone /\ \E i \in 1..Len(tree.entries) : FailsToParse(tree.entries[i]))
    => /\ result.err = << >>
       /\ result.spec # << >>
       /\ result.spec[1] \in Documents(WithoutFailing(tree.entries))

\* a run over a rejected model-layer file declaring T and the handler file
\* has returned: T is the handler file's, and the handler's route is there
C11_Witness ==
  /\ AnalyzeDone
  /\ File_broken \in Range(tree.entries)
  /\ File_handler \in Range(tree.entries)
  /\ Len(tree.entries) = 2
  /\ result.spec # << >>
  /\ DOMAIN result.spec[1].schemas = {"T", "ApiResponse"}
  /\ DOMAIN result.spec[1].schemas["T"].props = {<<"x">>}
  /\ DOMAIN result.spec[1].paths = {<<"/", "{", "i", "}">>}

\* the priority of the declarations of entry e
PriorityOf(e) == calculatePriority(extractPackageNameFromPath(e))

\* entries i and j are the two analysed files that declare a type called as
\* di and dj, which differ in their fields and have only basic-typed fields
TwoDeclarations(i, di, j, dj) ==
  /\ Analysed(tree.entries[i])
  /\ Analysed(tree.entries[j])
  /\ di.name = dj.name
  /\ di.fields # dj.fields
  /\ Declaring(di.name) = {i, j}
  /\ i # j
  /\ OnlyBasicFields(di)
  /\ OnlyBasicFields(dj)

\* the entries with the i-th and the j-th exchanged
Swap(es, i, j) ==
  [k \in 1..Len(es) |-> IF k = i THEN es[j] ELSE IF k = j THEN es[i] ELSE es[k]]

C13_DocumentOnlyGrows ==
  [][/\ DOMAIN doc.schemas \subseteq DOMAIN doc'.schemas
     /\ \A q \in DOMAIN doc.paths :
          /\ q \in DOMAIN doc'.paths
          /\ DOMAIN doc.paths[q] \subseteq DOMAIN doc'.paths[q]
     /\ docCall'.fn = "AddSchema" => docCall'.name \in DOMAIN doc'.schemas
     /\ docCall'.fn = "AddPath" =>
          /\ docCall'.path \in DOMAIN doc'.paths
          /\ docCall'.method \in validMethods =>
               docCall'.method \in DOMAIN doc'.paths[docCall'.path]
          /\ \A q \in DOMAIN doc.paths :
               \A k \in DOMAIN doc.paths[q] :
                 <<q, k>> # <<docCall'.path, docCall'.method>> =>
                   doc'.paths[q][k] = doc.paths[q][k]]_vars

\* after three calls a path holds two methods with different operations,
\* the second registered by the last call
C13_Witness ==
  /\ docCalls = MaxCalls
  /\ docCall.fn = "AddPath"
  /\ docCall.method = "POST"
  /\ DOMAIN doc.schemas # {}
  /\ docCall.path \in DOMAIN doc.paths
  /\ DOMAIN doc.paths[docCall.path] = {"GET", "POST"}
  /\ doc.paths[docCall.path]["GET"] # doc.paths[docCall.path]["POST"]

\* C14 as stated: two analysis runs interleaved in one process access no
\* shared mutable resource: each run returns the Document it would return
\* when run alone, that is on the working copy as its own CloneOrPull left it.
C14_InterleavedRunsAsAlone ==
  \A d \in Deliveries :
    gPc[d] = "done" =>
      /\ gResult[d].err = << >>
      /\ gResult[d].spec[1] \in Documents(gPulled[d])

\* the same for deliveries that name different repositories: their working
\* copies are different directories
C14_DistinctRepositoriesAsAlone ==
  \A d \in Deliveries :
    (/\ gPc[d] = "done"
     /\ \A e \in Deliveries \ {d} : e \in DOMAIN gRepo => gRepo[e] # gRepo[d])
    => /\ gResult[d].err = << >>
       /\ gResult[d].spec[1] \in Documents(gPulled[d])

\* C24: the route-assembly pass (the second walk: route extraction, linking
\* and AddPath) leaves the type-schema mapping, the handler-info mapping and
\* the service-function mapping exactly as they were when the pass started.
C24_AssemblyLeavesAnalyzers ==
  [][pc = "walk2" =>
       /\ structs' = structs
       /\ heap' = heap
       /\ structPriority' = structPriority
       /\ embeddedFields' = embeddedFields
       /\ handlerInfoMap' = handlerInfoMap
       /\ functions' = functions]_vars

\* the second walk has linked a handler whose response type is inferred
\* from a service function and added its path, with all three mappings
\* non-empty
C24_Witness ==
  /\ pc \in {"walk2", "done"}
  /\ DOMAIN spec.paths # {}
  /\ DOMAIN structs # {}
  /\ DOMAIN functions # {}
  /\ \E h \in DOMAIN handlerInfoMap :
       /\ inferResponseTypeFromServiceCalls(handlerInfoMap[h], functions) # << >>
       /\ inferResponseTypeFromServiceCalls(handlerInfoMap[h], functions)
            # handlerInfoMap[h].responseType

\* the Properties maps a schema value points to, through items and
\* additionalProperties
RECURSIVE PropsOf(_)
PropsOf(s) ==
  (IF s.props = Nil THEN {} ELSE {s.props})
    \cup (IF s.items = << >> THEN {} ELSE PropsOf(s.items[1]))
    \cup (IF s.addl = << >> THEN {} ELSE PropsOf(s.addl[1]))

\* the Properties maps the schemas held in map i point to
PropsBelow(i) == UNION {PropsOf(heap[i][k]) : k \in DOMAIN heap[i]}

\* the maps reached from the set S of maps in at most n steps
RECURSIVE ReachedFrom(_, _)
ReachedFrom(S, n) ==
  IF n = 0 THEN S
  ELSE ReachedFrom(S \cup UNION {PropsBelow(i) : i \in S}, n - 1)

\* map i is reached from itself
OnCycle(i) == i \in ReachedFrom(PropsBelow(i), Len(heap))

\* the component schemas are added after extraction and expansion
SchemasAdded == pc \in {"walk2", "done"}

\* C26 as stated: after extraction and expansion every component schema is a
\* finite tree: following properties, items and additionalProperties from
\* it never reaches a properties map that is already on the path, for every
\* source tree.
C26_ComponentSchemasAreTrees ==
  SchemasAdded =>
    \A n \in DOMAIN spec.schemas :
      \A i \in ReachedFrom(PropsOf(spec.schemas[n]), Len(heap)) : ~OnCycle(i)

\* ExpandEmbeddedFields has returned
Expanded == pc \in {"schemas", "walk2", "done"}

\* extracted type a embeds extracted type b
Embeds(a, b) ==
  /\ a \in DOMAIN structs
  /\ b \in DOMAIN structs
  /\ a \in DOMAIN embeddedFields
  /\ b \in Range(embeddedFields[a])

\* the property names of extracted type a
PropertiesOf(a) == DOMAIN heap[structs[a].props]

\* C27 as stated: for a chain A embeds B, B embeds C, all three extracted,
\* after ExpandEmbeddedFields A's schema contains every property of C that A
\* and B do not declare themselves, in whatever order the expansion pass
\* visits the owners.
C27_ChainPropertiesReachOwner ==
  Expanded =>
    \A a, b, c \in DOMAIN structs :
      (Embeds(a, b) /\ Embeds(b, c)) => PropertiesOf(c) \subseteq PropertiesOf(a)

\* the entries with declaration d taken out of the i-th
WithoutDecl(es, i, d) ==
  LET Keep(x) == x # d
  IN [es EXCEPT ![i].structs = SelectSeq(@, Keep)]

\* declaration di of entry i is rejected by the priority rule: an entry
\* visited before it has stored the name with a higher priority
Rejected(i, di) ==
  /\ Analysed(tree.entries[i])
  /\ \E j \in 1..(i - 1) :
       /\ Analysed(tree.entries[j])
       /\ PriorityOf(tree.entries[j]) > PriorityOf(tree.entries[i])
       /\ \E dj \in Range(tree.entries[j].structs) : dj.name = di.name

\* C28 as stated: a struct declaration that the priority rule rejects leaves
\* no trace: the schemas of the Document are schemas Analyze can return on
\* the tree without that declaration, also when the declaration has
\* anonymous fields.
C28_RejectedDeclarationLeavesNoTrace ==
  \A i \in 1..Len(tree.entries) :
    \A di \in Range(tree.entries[i].structs) :
      (AnalyzeDone /\ Rejected(i, di))
        => \E d \in Documents(WithoutDecl(tree.entries, i, di)) :
             d.schemas = result.spec[1].schemas

\* a schema value and the schema values below it through items and
\* additionalProperties
RECURSIVE SchemasIn(_)
SchemasIn(s) ==
  {s} \cup (IF s.items = << >> THEN {} ELSE SchemasIn(s.items[1]))
      \cup (IF s.addl = << >> THEN {} ELSE SchemasIn(s.addl[1]))

\* the required names of schema value s are keys of its properties
RequiredAreProperties(s) ==
  \A r \in Range(s.required) : s.props # Nil /\ r \in DOMAIN heap[s.props]

\* C29: in every reachable state of the schema mapping, after any sequence
\* of file extractions and after the expansion pass, every name in a
\* schema's required list is a key of that schema's properties; checked for
\* the stored schemas and for every schema value held in a properties map.
C29_RequiredNamesAreProperties ==
  /\ \A n \in DOMAIN structs : RequiredAreProperties(structs[n])
  /\ \A i \in 1..Len(heap) :
       \A k \in DOMAIN heap[i] :
         \A s \in SchemasIn(heap[i][k]) : RequiredAreProperties(s)

\* after the expansion pass an owner holds, as required name and as
\* property, a name that its own declaration does not give it and the type
\* it embeds does
C29_Witness ==
  /\ Expanded
  /\ \E a, b \in DOMAIN structs :
       /\ Embeds(a, b)
       /\ \E r \in Range(structs[b].required) :
            /\ r \in Range(structs[a].required)
            /\ r \in PropertiesOf(a)
            /\ r \notin DOMAIN extractStructSchemaWithName(
                                  CHOOSE d \in UNION {Range(tree.entries[i].structs) :
                                                        i \in 1..Len(tree.entries)} :
                                    d.name = a,
                                  << >>, EmptyMap).props

\* the analysed entries that declare a handler function called h
DeclaringHandler(h) ==
  {i \in 1..Len(tree.entries) :
     /\ Analysed(tree.entries[i])
     /\ \E f \in Range(tree.entries[i].funcs) : f.gin /\ f.name = h}

\* the handler info of the declaration of h in the file visited last
LastHandlerInfo(h) ==
  LET i == CHOOSE i \in DeclaringHandler(h) : \A j \in DeclaringHandler(h) : j <= i
      f == CHOOSE f \in Range(tree.entries[i].funcs) : f.gin /\ f.name = h
  IN analyzeHandlerBody(h, f.body)

\* the routes of the analysed files
RoutesOfTree ==
  UNION {Range(ExtractGinRoutes(tree.entries[i].funcs, 1)) :
           i \in {k \in 1..Len(tree.entries) : Analysed(tree.entries[k])}}

\* route r with the types of handler info alone: its request type, and its
\* response type unless the service calls of info give an inferred one
WithTypesOf(r, info) ==
  LET inferred == inferResponseTypeFromServiceCalls(info, functions)
  IN [r EXCEPT !.requestType = info.requestType,
               !.responseType = IF inferred # << >> THEN inferred
                                ELSE info.responseType]

\* C30: handler info is keyed by bare function name across the tree with
\* whole-entry last-write-wins: when two handler functions in different
\* files share a name, every route naming that handler, bare or through a
\* qualified selector, has the request and response types of the one in the
\* file visited last, with no field-wise merge of the two.
C30_LastVisitedHandlerWins ==
  AnalyzeDone =>
    \A r \in RoutesOfTree :
      Cardinality(DeclaringHandler(r.handler)) >= 2 =>
        /\ handlerInfoMap[r.handler] = LastHandlerInfo(r.handler)
        /\ result.spec[1].paths[r.path][r.method] =
             ToOperation(WithTypesOf(r, LastHandlerInfo(r.handler)))

\* handler/h.go then api/a.go: both routes have the types of the H of
\* api/a.go, whose request type is empty
C30_Witness ==
  /\ AnalyzeDone
  /\ tree.entries = <<File_handler, File_api>>
  /\ Cardinality(RoutesOfTree) = 2
  /\ handlerInfoMap["H"].requestType = << >>
  /\ handlerInfoMap["H"].responseType = <<"User">>
  /\ result.spec[1].paths[<<"/", "{", "i", "}">>]["POST"].requestBody[1].schema
       = [EmptySchema EXCEPT !.type = "object"]
  /\ "GET" \in DOMAIN result.spec[1].paths[P_a]

\* C10 as stated: when the root directory is inaccessible Analyze returns an
\* error and no Document; any other traversal failure is recovered and the
\* run completes with a Document.
C10_InaccessibleRootAborts ==
  AnalyzeDone =>
    IF tree.rootOk
      THEN result.err = << >> /\ result.spec # << >>
      ELSE result.err # << >> /\ result.spec = << >>

====
